---- MODULE Spec2Model ----
(***************************************************************************)
(* Model of the Jira ingesting pipeline:                                    *)
(*   - IssueRepository / JiraIssueService.get_connected_issues             *)
(*     (src/agent_utils/issue_tools.py)                                    *)
(*   - keyword_search (src/agent_utils/keyword_search.py)                  *)
(*   - PromptStore.get_prompt (src/ai/prompt_store.py)                     *)
(*   - JiraFactory.create_issue (src/jira_tools/factory.py)                *)
(*   - fetch_issues (src/jira_tools/handler.py, src/pipeline.py)           *)
(*   - JiraIngestor (src/jira_tools/ingestor.py) with the statements of    *)
(*     src/db/query_store.py and execute_sql of src/db/vectordb_client.py  *)
(*   - connected_issues_for_key (src/agent_utils/issue_tools.py)           *)
(*                                                                         *)
(* Python strings are sequences of code points, so that comparison,        *)
(* lower-casing and substring search are computed, not assumed.            *)
(***************************************************************************)
EXTENDS Integers, Sequences, FiniteSets, TLC

VARIABLES
    batch,                      \* the list handed to IssueRepository.__init__
    _issue_map,                 \* IssueRepository._issue_map (insertion-ordered dict)
    pc,                         \* position of the service: fetch, new, idle, loop, done, error
    issue_key,                  \* argument of get_connected_issues
    queue,                      \* collections.deque of keys
    seen_issue_keys,            \* set of keys
    connected_issue_objects,    \* list of issues, in traversal order
    result,                     \* the list get_connected_issues returned
    raised,                     \* the exception that left the call, or "None"
    all_issues,                 \* the list get_all_issues returned, in its caller's hands
    kw_pc,                      \* position of keyword_search: start, keywords, fetched, done, error
    category,                   \* argument of keyword_search: attribute names
    match_mode,                 \* argument of keyword_search
    llm,                        \* what prompt() answers for this call, or Failure
    jira,                       \* what fetch_and_parse_issues answers for this call, or Failure
    keywords,                   \* keyword_search.keywords
    issues,                     \* keyword_search.issues
    kw_result,                  \* the list keyword_search returned
    kw_raised,                  \* the exception that left keyword_search, or "None"
    prompt_pc,                  \* position of get_prompt: idle, start, done, error
    prompt_name,                \* argument of get_prompt
    prompt_params,              \* keyword arguments of get_prompt
    prompt_text,                \* the string get_prompt returned
    prompt_raised,              \* the exception that left get_prompt, or NoError
    frames,                     \* the calls of _recursive_format that have not returned
    factory_pc,                 \* position of create_issue: idle, start, done, error
    raw_issue,                  \* argument of create_issue
    created_issue,              \* the model create_issue returned
    factory_warned,             \* whether create_issue logged its warning
    factory_raised,             \* the exception that left create_issue, or "None"
    fetch_pc,                   \* position of fetch_issues: idle, loop, done
    fetch_module,               \* which fetch_issues runs: handler or pipeline
    source,                     \* the issues the query matches at the server, in order
    start_at,                   \* fetch_issues.start_at
    fetch_issues_list,          \* fetch_issues.issues
    pages,                      \* the requests made so far: offset and size of the page
    ingest_pc,                  \* position of the ingestor: idle, single, bulk, done, error
    ingest_args,                \* arguments of ingest_bulk, or of ingest_issue
    position,                   \* ingest_bulk: the issues the three loops have passed
    store,                      \* the rows of the tables of the store
    calls,                      \* what was done for each issue, in the order of the calls
    ingest_raised,              \* the exception that left the ingestor, or "None"
    faulted                     \* whether a collaborator has failed during this call

graphVars == <<batch, _issue_map, pc, issue_key, queue, seen_issue_keys,
               connected_issue_objects, result, raised, all_issues>>

kwVars == <<kw_pc, category, match_mode, llm, jira, keywords, issues,
            kw_result, kw_raised>>

promptVars == <<prompt_pc, prompt_name, prompt_params, prompt_text, prompt_raised,
                frames>>

factoryVars == <<factory_pc, raw_issue, created_issue, factory_warned, factory_raised>>

fetchVars == <<fetch_pc, fetch_module, source, start_at, fetch_issues_list, pages>>

ingestVars == <<ingest_pc, ingest_args, position, store, calls, ingest_raised, faulted>>

-----------------------------------------------------------------------------
(* Bounds of the model *)

\* number of issues the fetch of one keyword_search returns
MaxIssues == 2

\* total number of link entries (parent_key and subtasks entries) in a batch
MaxLinks == 2

\* the same, for the batches whose repository is queried in any order
RepoLinks == 1

-----------------------------------------------------------------------------
(* Strings *)

\* "P-1", "P-10", "P-2" as code points; as Python strings "P-1" < "P-10" < "P-2"
Keys == { <<80, 45, 49>>, <<80, 45, 49, 48>>, <<80, 45, 50>> }

\* A batch holds at most as many issues as there are keys, duplicates included
MaxBatch == Cardinality(Keys)

\* parent_key absent (no attribute), None or "": all are falsy at line 142
NoParent == <<>>

\* Python's str.__lt__: lexicographic by code point, a proper prefix is smaller
RECURSIVE StrLess(_, _)
StrLess(a, b) ==
    IF b = <<>> THEN FALSE
    ELSE IF a = <<>> THEN TRUE
    ELSE IF Head(a) # Head(b) THEN Head(a) < Head(b)
    ELSE StrLess(Tail(a), Tail(b))

\* str.lower on the ASCII range
LowerChar(c) == IF c \in 65..90 THEN c + 32 ELSE c

lower(s) == [n \in 1..Len(s) |-> LowerChar(s[n])]

\* the regular expression class \w on the ASCII range
IsWordChar(c) == c \in (48..57) \cup (65..90) \cup (97..122) \cup {95}

IsSpace(c) == c \in {9, 10, 11, 12, 13, 32}

\* str.strip()
RECURSIVE lstrip(_)
lstrip(s) == IF s # <<>> /\ IsSpace(Head(s)) THEN lstrip(Tail(s)) ELSE s

RECURSIVE rstrip(_)
rstrip(s) ==
    IF s # <<>> /\ IsSpace(s[Len(s)]) THEN rstrip(SubSeq(s, 1, Len(s) - 1)) ELSE s

strip(s) == rstrip(lstrip(s))

\* str.split(","): never empty, "" gives [""]
RECURSIVE split(_, _, _)
split(s, sep, piece) ==
    IF s = <<>> THEN <<piece>>
    ELSE IF Head(s) = sep THEN <<piece>> \o split(Tail(s), sep, <<>>)
    ELSE split(Tail(s), sep, Append(piece, Head(s)))

\* `needle in text`
Contains(text, needle) ==
    \E at \in 1..(Len(text) - Len(needle) + 1) :
        SubSeq(text, at, at + Len(needle) - 1) = needle

\* the keyword's characters at position `at` of the text, compared as
\* re.IGNORECASE compares them
RECURSIVE MatchesAt(_, _, _)
MatchesAt(text, keyword, at) ==
    IF keyword = <<>> THEN TRUE
    ELSE IF at > Len(text) THEN FALSE
    ELSE /\ LowerChar(text[at]) = LowerChar(Head(keyword))
         /\ MatchesAt(text, Tail(keyword), at + 1)

\* the scan of re.search: the pattern (?<!\w)keyword(?!\w) is tried at each
\* position from `at` on, the end of the text included
RECURSIVE StrictSearchFrom(_, _, _)
StrictSearchFrom(text, keyword, at) ==
    IF at > Len(text) + 1 THEN FALSE
    ELSE IF /\ ~(at > 1 /\ IsWordChar(text[at - 1]))
            /\ MatchesAt(text, keyword, at)
            /\ ~(at + Len(keyword) <= Len(text) /\ IsWordChar(text[at + Len(keyword)]))
         THEN TRUE
    ELSE StrictSearchFrom(text, keyword, at + 1)

\* StrictSearch without the two lookarounds
UnanchoredSearch(text, keyword) ==
    \E at \in 1..(Len(text) + 1) : MatchesAt(text, keyword, at)

\* re.search(rf"(?<!\w){re.escape(keyword)}(?!\w)", text, flags=re.IGNORECASE)
StrictSearch(text, keyword) == StrictSearchFrom(text, keyword, 1)

IsTokenChar(c) == IsWordChar(c) \/ c = 45

RECURSIVE TrimHyphens(_)
TrimHyphens(s) ==
    IF s # <<>> /\ Head(s) = 45 THEN TrimHyphens(Tail(s))
    ELSE IF s # <<>> /\ s[Len(s)] = 45 THEN TrimHyphens(SubSeq(s, 1, Len(s) - 1))
    ELSE s

\* re.findall(r"\b\w[\w-]*\b", text): each maximal run of word characters and
\* hyphens, from its first to its last word character
RECURSIVE Tokens(_, _)
Tokens(text, run) ==
    LET token == TrimHyphens(run)
        found == IF token = <<>> THEN <<>> ELSE <<token>>
    IN  IF text = <<>> THEN found
        ELSE IF IsTokenChar(Head(text)) THEN Tokens(Tail(text), Append(run, Head(text)))
        ELSE found \o Tokens(Tail(text), <<>>)

\* length of a longest common subsequence
RECURSIVE LCS(_, _)
LCS(a, b) ==
    IF a = <<>> \/ b = <<>> THEN 0
    ELSE IF Head(a) = Head(b) THEN 1 + LCS(Tail(a), Tail(b))
    ELSE LET x == LCS(Tail(a), b)
             y == LCS(a, Tail(b))
         IN  IF x > y THEN x ELSE y

\* rapidfuzz.fuzz.ratio(a, b) >= threshold, the ratio being
\* 100 * 2 * LCS / (len(a) + len(b)), and 100 for two empty strings
RatioAtLeast(a, b, threshold) ==
    IF Len(a) + Len(b) = 0 THEN 100 >= threshold
    ELSE 200 * LCS(a, b) >= threshold * (Len(a) + Len(b))

-----------------------------------------------------------------------------
(* Issues *)

\* JiraBaseIssue restricted to the fields the traversal reads
Issue(k, p, s) == [key |-> k, parent_key |-> p, subtasks |-> s]

\* number of link entries an issue carries
RECURSIVE SubtaskLists(_)
SubtaskLists(n) ==
    IF n = 0 THEN { <<>> }
    ELSE LET shorter == SubtaskLists(n - 1)
         IN  shorter \cup { Append(s, k) : s \in shorter, k \in Keys }

LinkCount(i) == (IF i.parent_key = NoParent THEN 0 ELSE 1) + Len(i.subtasks)

IssuesWithin(budget) ==
    { i \in { Issue(k, p, s) : k \in Keys, p \in Keys \cup {NoParent},
                               s \in SubtaskLists(budget) } :
        LinkCount(i) <= budget }

\* every list of at most n issues that carries at most budget link entries
RECURSIVE Batches(_, _)
Batches(n, budget) ==
    IF n = 0 THEN { <<>> }
    ELSE { <<>> } \cup
         UNION { { <<i>> \o b : b \in Batches(n - 1, budget - LinkCount(i)) } :
                 i \in IssuesWithin(budget) }

-----------------------------------------------------------------------------
(* IssueRepository *)

\* position of key k in the ordered dict m, 0 when absent
RECURSIVE IndexOf(_, _, _)
IndexOf(m, k, from) ==
    IF from > Len(m) THEN 0
    ELSE IF m[from].key = k THEN from
    ELSE IndexOf(m, k, from + 1)

\* dict.__setitem__: a present key keeps its position and takes the new value
DictSet(m, issue) ==
    LET at == IndexOf(m, issue.key, 1)
    IN  IF at = 0 THEN Append(m, issue)
        ELSE [m EXCEPT ![at] = issue]

\* {issue.key: issue for issue in issues}
RECURSIVE BuildMap(_, _)
BuildMap(items, m) ==
    IF items = <<>> THEN m
    ELSE BuildMap(Tail(items), DictSet(m, Head(items)))

None == [key |-> <<>>, none |-> TRUE]

\* IssueRepository.get_issue: dict.get, None on a miss
get_issue(m, k) ==
    LET at == IndexOf(m, k, 1)
    IN  IF at = 0 THEN None ELSE m[at]

\* IssueRepository.get_all_issues
get_all_issues(m) == m

\* the dict's own storage handed out: a change of the list is a change of the dict
values_view(values) == [shared |-> TRUE, items |-> values]

\* list(...), line 87: a new list object that holds the same issues
new_list(values) == [shared |-> FALSE, items |-> values]

KeysOf(m) == { m[n].key : n \in 1..Len(m) }

-----------------------------------------------------------------------------
(* JiraIssueService.get_connected_issues *)

LoopState(q, seen, connected) == [queue |-> q, seen |-> seen, connected |-> connected]

\* Enqueue without the visited-set check
EnqueueUnchecked(st, k) ==
    [st EXCEPT !.seen = st.seen \cup {k}, !.queue = Append(st.queue, k)]

\* Enqueue that leaves the marking to the moment the key is taken from the queue
EnqueueUnmarked(st, k) ==
    IF k \notin st.seen THEN [st EXCEPT !.queue = Append(st.queue, k)] ELSE st

\* lines 144-146 and 151-153: mark at enqueue time, skip a key already seen
Enqueue(st, k) ==
    IF k \notin st.seen
    THEN [st EXCEPT !.seen = st.seen \cup {k}, !.queue = Append(st.queue, k)]
    ELSE st

\* EnqueueParent that does not follow the parent link
EnqueueParentSkipped(st, issue) == st

\* lines 142-146
EnqueueParent(st, issue) ==
    IF issue.parent_key # NoParent THEN Enqueue(st, issue.parent_key) ELSE st

\* lines 150-153
RECURSIVE EnqueueSubtasks(_, _)
EnqueueSubtasks(st, subtasks) ==
    IF subtasks = <<>> THEN st
    ELSE EnqueueSubtasks(Enqueue(st, Head(subtasks)), Tail(subtasks))

\* Iterate that leaves the loop at a key the repository does not hold
IterateBreak(m, st) ==
    LET current_issue == get_issue(m, Head(st.queue))
        popped == [st EXCEPT !.queue = Tail(st.queue)]
    IN  IF current_issue = None
        THEN [popped EXCEPT !.queue = <<>>]
        ELSE EnqueueSubtasks(
                 EnqueueParent(
                     [popped EXCEPT !.connected = Append(popped.connected, current_issue)],
                     current_issue),
                 current_issue.subtasks)

\* the body of the while loop, lines 131-153, on a non-empty queue
Iterate(m, st) ==
    LET current_issue_key == Head(st.queue)
        current_issue == get_issue(m, current_issue_key)
        popped == [st EXCEPT !.queue = Tail(st.queue)]
    IN  IF current_issue = None
        THEN popped
        ELSE EnqueueSubtasks(
                 EnqueueParent(
                     [popped EXCEPT !.connected = Append(popped.connected, current_issue)],
                     current_issue),
                 current_issue.subtasks)

\* list.sort(key=lambda issue: issue.key): stable, ascending by key
RECURSIVE InsertByKey(_, _)
InsertByKey(sorted, issue) ==
    IF sorted = <<>> THEN <<issue>>
    ELSE IF StrLess(issue.key, Head(sorted).key)
         THEN <<issue>> \o sorted
         ELSE <<Head(sorted)>> \o InsertByKey(Tail(sorted), issue)

\* SortByKey that leaves the traversal order
KeepOrder(objects) == objects

RECURSIVE SortByKey(_)
SortByKey(objects) ==
    IF objects = <<>> THEN <<>>
    ELSE InsertByKey(SortByKey(SubSeq(objects, 1, Len(objects) - 1)),
                     objects[Len(objects)])

-----------------------------------------------------------------------------
(* keyword_search *)

\* default of the fuzzy_threshold parameter
fuzzy_threshold == 85

\* what a collaborator call does: it returns a value, or it raises
Answer(v) == [failed |-> FALSE, value |-> v]
Failure == [failed |-> TRUE, value |-> <<>>]

\* texts of the fetched issues: "Bug", "fix it", "debugging"
Texts == { <<66, 117, 103>>, <<102, 105, 120, 32, 105, 116>>, <<100, 101, 98, 117, 103, 103, 105, 110, 103>> }

\* answers of the text generator: "bug", "bug, fix", "Fix,bug", "debuging", ""
Responses == { <<98, 117, 103>>, <<98, 117, 103, 44, 32, 102, 105, 120>>, <<70, 105, 120, 44, 98, 117, 103>>, <<100, 101, 98, 117, 103, 105, 110, 103>>, <<>> }

\* category arguments; "labels" names no attribute of an issue
Categories ==
    { <<>>, <<"summary">>, <<"summary", "description">>,
      <<"description", "labels">>, <<"labels">> }

\* "regex" is no match mode
MatchModes == { "strict", "fuzzy", "contains", "regex" }

KeySeq == << <<80, 45, 49>>, <<80, 45, 49, 48>>, <<80, 45, 50>> >>

FetchedIssue(n, s, d) ==
    [key |-> KeySeq[((n - 1) % Len(KeySeq)) + 1], summary |-> s, description |-> d]

\* every list of at most n fetched issues
RECURSIVE IssueLists(_)
IssueLists(n) ==
    IF n = 0 THEN { <<>> }
    ELSE LET shorter == IssueLists(n - 1)
         IN  shorter \cup
             { Append(l, FetchedIssue(n, t, d)) :
                 l \in { x \in shorter : Len(x) = n - 1 }, t \in Texts, d \in Texts }

\* get_keywords, line 56: split the answer at commas, strip each piece
get_keywords(response) ==
    LET pieces == split(response, 44, <<>>)
    IN  [n \in 1..Len(pieces) |-> strip(pieces[n])]

\* is_token_fuzzy_match, lines 70-71
is_token_fuzzy_match(text, keyword, threshold) ==
    LET tokens == Tokens(lower(text), <<>>)
    IN  \E n \in 1..Len(tokens) : RatioAtLeast(lower(keyword), tokens[n], threshold)

Returned(v) == [raised |-> FALSE, value |-> v]
Raised == [raised |-> TRUE, value |-> FALSE]

\* is_match, lines 84-91: the value, or the ValueError of an unknown mode
is_match(text, keyword, mode) ==
    IF mode = "strict" THEN Returned(StrictSearch(text, keyword))
    ELSE IF mode = "fuzzy"
         THEN Returned(is_token_fuzzy_match(text, keyword, fuzzy_threshold))
    ELSE IF mode = "contains" THEN Returned(Contains(lower(text), lower(keyword)))
    ELSE Raised

\* getattr(issue, cat, "")
getattr(issue, cat) == IF cat \in DOMAIN issue THEN issue[cat] ELSE <<>>

\* any(is_match(getattr(issue, cat, ""), kw) for cat in category), line 104
RECURSIVE AnyCategory(_, _, _, _)
AnyCategory(issue, kw, cats, mode) ==
    IF cats = <<>> THEN Returned(FALSE)
    ELSE LET m == is_match(getattr(issue, Head(cats)), kw, mode)
         IN  IF m.raised THEN Raised
             ELSE IF m.value THEN Returned(TRUE)
             ELSE AnyCategory(issue, kw, Tail(cats), mode)

\* AllKeywords with `any` in place of `all`
RECURSIVE OneKeyword(_, _, _, _)
OneKeyword(issue, kws, cats, mode) ==
    IF kws = <<>> THEN Returned(FALSE)
    ELSE LET a == AnyCategory(issue, Head(kws), cats, mode)
         IN  IF a.raised THEN Raised
             ELSE IF a.value THEN Returned(TRUE)
             ELSE OneKeyword(issue, Tail(kws), cats, mode)

\* all(any(...) for kw in keywords), lines 103-106
RECURSIVE AllKeywords(_, _, _, _)
AllKeywords(issue, kws, cats, mode) ==
    IF kws = <<>> THEN Returned(TRUE)
    ELSE LET a == AnyCategory(issue, Head(kws), cats, mode)
         IN  IF a.raised THEN Raised
             ELSE IF ~a.value THEN Returned(FALSE)
             ELSE AllKeywords(issue, Tail(kws), cats, mode)

\* the list comprehension, lines 101-107
RECURSIVE FilterIssues(_, _, _, _)
FilterIssues(fetched, kws, cats, mode) ==
    IF fetched = <<>> THEN [raised |-> FALSE, value |-> <<>>]
    ELSE LET keep == AllKeywords(Head(fetched), kws, cats, mode)
             rest == FilterIssues(Tail(fetched), kws, cats, mode)
         IN  IF keep.raised \/ rest.raised THEN [raised |-> TRUE, value |-> <<>>]
             ELSE [raised |-> FALSE,
                   value |-> IF keep.value THEN <<Head(fetched)>> \o rest.value
                             ELSE rest.value]

-----------------------------------------------------------------------------
(* PromptStore: format strings *)

\* position of the first character of a text, at or after `from`, that is one
\* of `chars`; 0 when there is none
Find(text, chars, from) ==
    IF \E n \in from..Len(text) : text[n] \in chars
    THEN CHOOSE n \in from..Len(text) :
             text[n] \in chars /\ \A m \in from..(n - 1) : text[m] \notin chars
    ELSE 0

\* the rest of a text from position `from` on
Rest(text, from) == SubSeq(text, from, Len(text))

\* string.Formatter().parse(text): the field names of a format string in the
\* order of their appearance; "{{" and "}}" are literal braces. The format
\* strings of the store and of the calls are well-formed.
RECURSIVE FieldNames(_)
FieldNames(text) ==
    LET brace == Find(text, {123, 125}, 1)
        close == Find(text, {125}, brace)
    IN  IF brace = 0 THEN <<>>
        ELSE IF brace < Len(text) /\ text[brace + 1] = text[brace]
             THEN FieldNames(Rest(text, brace + 2))
        ELSE IF text[brace] = 123
             THEN <<SubSeq(text, brace + 1, close - 1)>> \o FieldNames(Rest(text, close + 1))
        ELSE FieldNames(Rest(text, brace + 1))

\* _extract_placeholders, lines 175-189: the set of the non-empty field names
_extract_placeholders(template) ==
    { FieldNames(template)[n] : n \in 1..Len(FieldNames(template)) } \ { <<>> }

\* text.format(**mapping): each field is replaced by the string of its value
RECURSIVE format(_, _)
format(text, mapping) ==
    LET brace == Find(text, {123, 125}, 1)
        close == Find(text, {125}, brace)
    IN  IF brace = 0 THEN text
        ELSE IF brace < Len(text) /\ text[brace + 1] = text[brace]
             THEN SubSeq(text, 1, brace) \o format(Rest(text, brace + 2), mapping)
        ELSE IF text[brace] = 123
             THEN SubSeq(text, 1, brace - 1)
                  \o mapping[SubSeq(text, brace + 1, close - 1)]
                  \o format(Rest(text, close + 1), mapping)
        ELSE SubSeq(text, 1, brace) \o format(Rest(text, brace + 1), mapping)

\* sep.join(items)
RECURSIVE join(_, _)
join(sep, items) ==
    IF items = <<>> THEN <<>>
    ELSE IF Len(items) = 1 THEN items[1]
    ELSE items[1] \o sep \o join(sep, Tail(items))

(* PromptStore: parameter values *)

\* the values a caller passes: a string, an integer (kept as its decimal
\* text, the only form in which the store uses it), a list of strings, None
StrValue(s) == [kind |-> "str", s |-> s, items |-> <<>>]
IntValue(digits) == [kind |-> "int", s |-> digits, items |-> <<>>]
ListValue(items) == [kind |-> "list", s |-> <<>>, items |-> items]
NoneValue == [kind |-> "none", s |-> <<>>, items |-> <<>>]

\* repr of a list of strings: ['a', 'b']
repr(items) ==
    <<91>> \o join(<<44, 32>>, [n \in 1..Len(items) |-> <<39>> \o items[n] \o <<39>>]) \o <<93>>

\* str(value), as format and the list branch apply it
str(value) ==
    IF value.kind = "list" THEN repr(value.items)
    ELSE IF value.kind = "none" THEN <<78, 111, 110, 101>>
    ELSE value.s

(* PromptStore: the lookup tables, lines 24-165. A table is kept in the order of
   its dict; of each table the model keeps the entries named below. *)

Entry(key, text) == [key |-> key, text |-> text]

\* ROLE: content_expert, extractor, translator
\*   content_expert: You are a helpful assistant specialized in content understanding.
\*   extractor: You are an information extraction tool optimized for structured output.
\*   translator: You are a professional translator specialized in technical and domain-specific texts, maintaining accuracy and clarity.
ROLE ==
    << Entry(<<99, 111, 110, 116, 101, 110, 116, 95, 101, 120, 112, 101, 114, 116>>, <<89, 111, 117, 32, 97, 114, 101, 32, 97, 32, 104, 101, 108, 112, 102, 117, 108, 32, 97, 115, 115, 105, 115, 116, 97, 110, 116, 32, 115, 112, 101, 99, 105, 97, 108, 105, 122, 101, 100, 32, 105, 110, 32, 99, 111, 110, 116, 101, 110, 116, 32, 117, 110, 100, 101, 114, 115, 116, 97, 110, 100, 105, 110, 103, 46>>),
       Entry(<<101, 120, 116, 114, 97, 99, 116, 111, 114>>, <<89, 111, 117, 32, 97, 114, 101, 32, 97, 110, 32, 105, 110, 102, 111, 114, 109, 97, 116, 105, 111, 110, 32, 101, 120, 116, 114, 97, 99, 116, 105, 111, 110, 32, 116, 111, 111, 108, 32, 111, 112, 116, 105, 109, 105, 122, 101, 100, 32, 102, 111, 114, 32, 115, 116, 114, 117, 99, 116, 117, 114, 101, 100, 32, 111, 117, 116, 112, 117, 116, 46>>),
       Entry(<<116, 114, 97, 110, 115, 108, 97, 116, 111, 114>>, <<89, 111, 117, 32, 97, 114, 101, 32, 97, 32, 112, 114, 111, 102, 101, 115, 115, 105, 111, 110, 97, 108, 32, 116, 114, 97, 110, 115, 108, 97, 116, 111, 114, 32, 115, 112, 101, 99, 105, 97, 108, 105, 122, 101, 100, 32, 105, 110, 32, 116, 101, 99, 104, 110, 105, 99, 97, 108, 32, 97, 110, 100, 32, 100, 111, 109, 97, 105, 110, 45, 115, 112, 101, 99, 105, 102, 105, 99, 32, 116, 101, 120, 116, 115, 44, 32, 109, 97, 105, 110, 116, 97, 105, 110, 105, 110, 103, 32, 97, 99, 99, 117, 114, 97, 99, 121, 32, 97, 110, 100, 32, 99, 108, 97, 114, 105, 116, 121, 46>>) >>

\* OBJECT: image, text
\*   image: provided image
\*   text: given text
OBJECT ==
    << Entry(<<105, 109, 97, 103, 101>>, <<112, 114, 111, 118, 105, 100, 101, 100, 32, 105, 109, 97, 103, 101>>),
       Entry(<<116, 101, 120, 116>>, <<103, 105, 118, 101, 110, 32, 116, 101, 120, 116>>) >>

\* RECIPIENT: ai_model, keyword_extractor
\*   ai_model: an AI model Processor for further analysis
\*   keyword_extractor: exact keyword matching (e.g. 'if word in text')
RECIPIENT ==
    << Entry(<<97, 105, 95, 109, 111, 100, 101, 108>>, <<97, 110, 32, 65, 73, 32, 109, 111, 100, 101, 108, 32, 80, 114, 111, 99, 101, 115, 115, 111, 114, 32, 102, 111, 114, 32, 102, 117, 114, 116, 104, 101, 114, 32, 97, 110, 97, 108, 121, 115, 105, 115>>),
       Entry(<<107, 101, 121, 119, 111, 114, 100, 95, 101, 120, 116, 114, 97, 99, 116, 111, 114>>, <<101, 120, 97, 99, 116, 32, 107, 101, 121, 119, 111, 114, 100, 32, 109, 97, 116, 99, 104, 105, 110, 103, 32, 40, 101, 46, 103, 46, 32, 39, 105, 102, 32, 119, 111, 114, 100, 32, 105, 110, 32, 116, 101, 120, 116, 39, 41>>) >>

\* FORMAT: summary, markdown, json
\*   summary: as a concise summary (do not use code blocks or markdown formatting)
\*   markdown: formatted in markdown for readability
\*   json: as JSON structured data
FORMAT ==
    << Entry(<<115, 117, 109, 109, 97, 114, 121>>, <<97, 115, 32, 97, 32, 99, 111, 110, 99, 105, 115, 101, 32, 115, 117, 109, 109, 97, 114, 121, 32, 40, 100, 111, 32, 110, 111, 116, 32, 117, 115, 101, 32, 99, 111, 100, 101, 32, 98, 108, 111, 99, 107, 115, 32, 111, 114, 32, 109, 97, 114, 107, 100, 111, 119, 110, 32, 102, 111, 114, 109, 97, 116, 116, 105, 110, 103, 41>>),
       Entry(<<109, 97, 114, 107, 100, 111, 119, 110>>, <<102, 111, 114, 109, 97, 116, 116, 101, 100, 32, 105, 110, 32, 109, 97, 114, 107, 100, 111, 119, 110, 32, 102, 111, 114, 32, 114, 101, 97, 100, 97, 98, 105, 108, 105, 116, 121>>),
       Entry(<<106, 115, 111, 110>>, <<97, 115, 32, 74, 83, 79, 78, 32, 115, 116, 114, 117, 99, 116, 117, 114, 101, 100, 32, 100, 97, 116, 97>>) >>

\* GOAL: classification, exact_matching
\*   classification: automated classification
\*   exact_matching: exact keyword matching
GOAL ==
    << Entry(<<99, 108, 97, 115, 115, 105, 102, 105, 99, 97, 116, 105, 111, 110>>, <<97, 117, 116, 111, 109, 97, 116, 101, 100, 32, 99, 108, 97, 115, 115, 105, 102, 105, 99, 97, 116, 105, 111, 110>>),
       Entry(<<101, 120, 97, 99, 116, 95, 109, 97, 116, 99, 104, 105, 110, 103>>, <<101, 120, 97, 99, 116, 32, 107, 101, 121, 119, 111, 114, 100, 32, 109, 97, 116, 99, 104, 105, 110, 103>>) >>

\* CONTEXT: none, number_limit, no_generic_terms
\*   none: 
\*   number_limit: Limit the number of keywords to between {min_keywords} and {max_keywords}.
\*   no_generic_terms: Focus only on content-carrying terms. Exclude generic or context-free words such as 'task', 'thing', 'item', or 'process'.
CONTEXT ==
    << Entry(<<110, 111, 110, 101>>, <<>>),
       Entry(<<110, 117, 109, 98, 101, 114, 95, 108, 105, 109, 105, 116>>, <<76, 105, 109, 105, 116, 32, 116, 104, 101, 32, 110, 117, 109, 98, 101, 114, 32, 111, 102, 32, 107, 101, 121, 119, 111, 114, 100, 115, 32, 116, 111, 32, 98, 101, 116, 119, 101, 101, 110, 32, 123, 109, 105, 110, 95, 107, 101, 121, 119, 111, 114, 100, 115, 125, 32, 97, 110, 100, 32, 123, 109, 97, 120, 95, 107, 101, 121, 119, 111, 114, 100, 115, 125, 46>>),
       Entry(<<110, 111, 95, 103, 101, 110, 101, 114, 105, 99, 95, 116, 101, 114, 109, 115>>, <<70, 111, 99, 117, 115, 32, 111, 110, 108, 121, 32, 111, 110, 32, 99, 111, 110, 116, 101, 110, 116, 45, 99, 97, 114, 114, 121, 105, 110, 103, 32, 116, 101, 114, 109, 115, 46, 32, 69, 120, 99, 108, 117, 100, 101, 32, 103, 101, 110, 101, 114, 105, 99, 32, 111, 114, 32, 99, 111, 110, 116, 101, 120, 116, 45, 102, 114, 101, 101, 32, 119, 111, 114, 100, 115, 32, 115, 117, 99, 104, 32, 97, 115, 32, 39, 116, 97, 115, 107, 39, 44, 32, 39, 116, 104, 105, 110, 103, 39, 44, 32, 39, 105, 116, 101, 109, 39, 44, 32, 111, 114, 32, 39, 112, 114, 111, 99, 101, 115, 115, 39, 46>>) >>

\* TASK: describe, keyword_extraction, translate
\*   describe (content_expert): Describe the {object} in a way that is optimized for {recipient}. Format your response {format}.
\*   keyword_extraction (extractor): From the {object}, extract a list of relevant keywords suitable for {recipient}. {context} Return the result {format} optimized for {goal}.
\*   translate (translator): Translate the {object} from {source_language} to {target_language} maintaining technical accuracy and clarity for {recipient}.
TASK ==
    << [key |-> <<100, 101, 115, 99, 114, 105, 98, 101>>, role_key |-> <<99, 111, 110, 116, 101, 110, 116, 95, 101, 120, 112, 101, 114, 116>>, template |-> <<68, 101, 115, 99, 114, 105, 98, 101, 32, 116, 104, 101, 32, 123, 111, 98, 106, 101, 99, 116, 125, 32, 105, 110, 32, 97, 32, 119, 97, 121, 32, 116, 104, 97, 116, 32, 105, 115, 32, 111, 112, 116, 105, 109, 105, 122, 101, 100, 32, 102, 111, 114, 32, 123, 114, 101, 99, 105, 112, 105, 101, 110, 116, 125, 46, 32, 70, 111, 114, 109, 97, 116, 32, 121, 111, 117, 114, 32, 114, 101, 115, 112, 111, 110, 115, 101, 32, 123, 102, 111, 114, 109, 97, 116, 125, 46>>],
       [key |-> <<107, 101, 121, 119, 111, 114, 100, 95, 101, 120, 116, 114, 97, 99, 116, 105, 111, 110>>, role_key |-> <<101, 120, 116, 114, 97, 99, 116, 111, 114>>, template |-> <<70, 114, 111, 109, 32, 116, 104, 101, 32, 123, 111, 98, 106, 101, 99, 116, 125, 44, 32, 101, 120, 116, 114, 97, 99, 116, 32, 97, 32, 108, 105, 115, 116, 32, 111, 102, 32, 114, 101, 108, 101, 118, 97, 110, 116, 32, 107, 101, 121, 119, 111, 114, 100, 115, 32, 115, 117, 105, 116, 97, 98, 108, 101, 32, 102, 111, 114, 32, 123, 114, 101, 99, 105, 112, 105, 101, 110, 116, 125, 46, 32, 123, 99, 111, 110, 116, 101, 120, 116, 125, 32, 82, 101, 116, 117, 114, 110, 32, 116, 104, 101, 32, 114, 101, 115, 117, 108, 116, 32, 123, 102, 111, 114, 109, 97, 116, 125, 32, 111, 112, 116, 105, 109, 105, 122, 101, 100, 32, 102, 111, 114, 32, 123, 103, 111, 97, 108, 125, 46>>],
       [key |-> <<116, 114, 97, 110, 115, 108, 97, 116, 101>>, role_key |-> <<116, 114, 97, 110, 115, 108, 97, 116, 111, 114>>, template |-> <<84, 114, 97, 110, 115, 108, 97, 116, 101, 32, 116, 104, 101, 32, 123, 111, 98, 106, 101, 99, 116, 125, 32, 102, 114, 111, 109, 32, 123, 115, 111, 117, 114, 99, 101, 95, 108, 97, 110, 103, 117, 97, 103, 101, 125, 32, 116, 111, 32, 123, 116, 97, 114, 103, 101, 116, 95, 108, 97, 110, 103, 117, 97, 103, 101, 125, 32, 109, 97, 105, 110, 116, 97, 105, 110, 105, 110, 103, 32, 116, 101, 99, 104, 110, 105, 99, 97, 108, 32, 97, 99, 99, 117, 114, 97, 99, 121, 32, 97, 110, 100, 32, 99, 108, 97, 114, 105, 116, 121, 32, 102, 111, 114, 32, 123, 114, 101, 99, 105, 112, 105, 101, 110, 116, 125, 46>>] >>

(* PromptStore: resolution *)

HasKey(table, key) == \E n \in 1..Len(table) : table[n].key = key

\* table[key]
Get(table, key) == table[CHOOSE n \in 1..Len(table) : table[n].key = key]

\* the parameter keys whose upper-case name is a table of the store
TableKeys == { <<114, 111, 108, 101>>, <<111, 98, 106, 101, 99, 116>>, <<114, 101, 99, 105, 112, 105, 101, 110, 116>>, <<102, 111, 114, 109, 97, 116>>, <<103, 111, 97, 108>>, <<99, 111, 110, 116, 101, 120, 116>> }

\* getattr(cls, key.upper(), {}), line 250
lookup_dict(key) ==
    IF key = <<114, 111, 108, 101>> THEN ROLE
    ELSE IF key = <<111, 98, 106, 101, 99, 116>> THEN OBJECT
    ELSE IF key = <<114, 101, 99, 105, 112, 105, 101, 110, 116>> THEN RECIPIENT
    ELSE IF key = <<102, 111, 114, 109, 97, 116>> THEN FORMAT
    ELSE IF key = <<103, 111, 97, 108>> THEN GOAL
    ELSE IF key = <<99, 111, 110, 116, 101, 120, 116>> THEN CONTEXT
    ELSE <<>>

\* what a call raises: the exception type, which raise statement it comes
\* from, the key it names, and the names its message lists
NoError == [type |-> "None", kind |-> "None", key |-> <<>>, names |-> <<>>]
Error(type, kind, key, names) ==
    [type |-> type, kind |-> kind, key |-> key, names |-> names]

Value(v) == [error |-> NoError, value |-> v]
Raise(e) == [error |-> e, value |-> NoneValue]

\* one item looked up in the parameters first, then in the table of the key
resolve_item_from_params(key, item, params) ==
    IF item \in DOMAIN params THEN [error |-> NoError, text |-> str(params[item])]
    ELSE IF HasKey(lookup_dict(key), item)
    THEN [error |-> NoError, text |-> Get(lookup_dict(key), item).text]
    ELSE [error |-> Error("ValueError", "UnresolvableListItem", key, <<item>>),
          text |-> <<>>]

\* one item of a list, lines 265-270: from the table of the key, else from the
\* parameters, else a ValueError
resolve_item(key, item, params) ==
    IF HasKey(lookup_dict(key), item)
    THEN [error |-> NoError, text |-> Get(lookup_dict(key), item).text]
    ELSE IF item \in DOMAIN params
    THEN [error |-> NoError, text |-> str(params[item])]
    ELSE [error |-> Error("ValueError", "UnresolvableListItem", key, <<item>>),
          text |-> <<>>]

\* the for loop of the list branch, lines 263-270: the first item that does
\* not resolve ends it
RECURSIVE resolve_items(_, _, _)
resolve_items(key, items, params) ==
    IF items = <<>> THEN [error |-> NoError, items |-> <<>>]
    ELSE LET first == resolve_item(key, Head(items), params)
             rest == resolve_items(key, Tail(items), params)
         IN  IF first.error # NoError THEN [error |-> first.error, items |-> <<>>]
             ELSE IF rest.error # NoError THEN rest
             ELSE [rest EXCEPT !.items = <<first.text>> \o @]

\* prose that joins the items with ", " only
comma_joined(resolved_items) == join(<<44, 32>>, resolved_items)

\* the prose of the resolved items, lines 273-279
prose(resolved_items) ==
    IF Len(resolved_items) = 1 THEN resolved_items[1]
    ELSE IF Len(resolved_items) = 2
         THEN resolved_items[1] \o <<32, 97, 110, 100, 32>> \o resolved_items[2]
    ELSE IF Len(resolved_items) > 2
         THEN join(<<44, 32>>, SubSeq(resolved_items, 1, Len(resolved_items) - 1))
              \o <<44, 32, 97, 110, 100, 32>> \o resolved_items[Len(resolved_items)]
    ELSE <<>>

\* _resolve_value, lines 235-281
_resolve_value(key, params) ==
    IF key \notin DOMAIN params \/ params[key].kind = "none"
    THEN IF HasKey(lookup_dict(key), <<110, 111, 110, 101>>)
         THEN Value(StrValue(Get(lookup_dict(key), <<110, 111, 110, 101>>).text))
         ELSE Raise(Error("KeyError", "NotProvided", key, <<>>))
    ELSE IF params[key].kind = "list"
    THEN LET resolved == resolve_items(key, params[key].items, params)
         IN  IF resolved.error # NoError THEN Raise(resolved.error)
             ELSE Value(StrValue(prose(resolved.items)))
    ELSE IF params[key].kind = "str" /\ HasKey(lookup_dict(key), params[key].s)
    THEN Value(StrValue(Get(lookup_dict(key), params[key].s).text))
    ELSE IF params[key].kind = "str" /\ params[key].s \in DOMAIN params
    THEN Value(params[params[key].s])
    ELSE Value(params[key])

\* get_key_values(key), lines 369-388: the keys of the table in its order, or
\* the ValueError for a key that names no table
get_key_values(key) ==
    IF key \in TableKeys
    THEN Value(ListValue([n \in 1..Len(lookup_dict(key)) |-> lookup_dict(key)[n].key]))
    ELSE Raise(Error("ValueError", "NotATemplateDictionary", key, <<>>))

\* how a call ends: with the text it returns, or with one of the errors it
\* can raise; which one depends on the iteration order of a set of keys
Return_(text) == [errors |-> {}, text |-> text]
Fail(errors) == [errors |-> errors, text |-> <<>>]

\* a key met again on its own path keeps its placeholder
placeholder_kept(key) == Return_(<<123>> \o key \o <<125>>)

\* lines 310-311: a key met again on its own path
cyclic_reference(key) == Fail({Error("ValueError", "CyclicReference", key, <<>>)})

\* _recursive_format with one set of seen keys for the whole prompt: the
\* recursion works on the set itself and no key is removed after its turn
RECURSIVE visit_keys(_, _, _, _), visit_text(_, _, _)
visit_keys(keys, params, seen_keys, texts) ==
    IF keys = {} THEN [errors |-> {}, seen |-> seen_keys, texts |-> texts, text |-> <<>>]
    ELSE LET key == CHOOSE k \in keys : TRUE
             resolved == _resolve_value(key, params)
             inner == visit_text(resolved.value.s, params, seen_keys \cup {key})
             failed(errors) ==
                 [errors |-> errors, seen |-> seen_keys, texts |-> texts, text |-> <<>>]
         IN  IF key \in seen_keys THEN failed(cyclic_reference(key).errors)
             ELSE IF resolved.error # NoError THEN failed({resolved.error})
             ELSE IF /\ resolved.value.kind = "str"
                     /\ \E n \in 1..Len(resolved.value.s) : resolved.value.s[n] = 123
             THEN IF inner.errors # {} THEN failed(inner.errors)
                  ELSE visit_keys(keys \ {key}, params, inner.seen,
                                  (key :> inner.text) @@ texts)
             ELSE visit_keys(keys \ {key}, params, seen_keys \cup {key},
                             (key :> str(resolved.value)) @@ texts)

visit_text(text, params, seen_keys) ==
    LET visited == visit_keys(_extract_placeholders(text), params, seen_keys, <<>>)
    IN  IF visited.errors # {} THEN visited
        ELSE [visited EXCEPT !.text = format(text, visited.texts)]

_recursive_format_visited(text, params, seen_keys) ==
    LET visited == visit_text(text, params, seen_keys)
    IN  IF visited.errors # {} THEN Fail(visited.errors) ELSE Return_(visited.text)

\* _recursive_format that formats the text once and leaves the placeholders
\* of the values it puts in
_recursive_format_once(text, params, seen_keys) ==
    LET placeholders == _extract_placeholders(text)
        errors == { _resolve_value(key, params).error : key \in placeholders } \ {NoError}
    IN  IF placeholders = {} THEN Return_(text)
        ELSE IF errors # {} THEN Fail(errors)
        ELSE Return_(format(text, [key \in placeholders |->
                                     str(_resolve_value(key, params).value)]))

\* _recursive_format, lines 284-319: seen_keys are the keys on the path from
\* the prompt to this text; the keys of one text are resolved independently
\* of each other, as each is removed from seen_keys after its turn
RECURSIVE _recursive_format(_, _, _)
_recursive_format(text, params, seen_keys) ==
    LET placeholders == _extract_placeholders(text)
        turn(key) ==
            IF key \in seen_keys THEN cyclic_reference(key)
            ELSE LET resolved == _resolve_value(key, params)
                 IN  IF resolved.error # NoError THEN Fail({resolved.error})
                     ELSE IF /\ resolved.value.kind = "str"
                             /\ \E n \in 1..Len(resolved.value.s) : resolved.value.s[n] = 123
                     THEN _recursive_format(resolved.value.s, params, seen_keys \cup {key})
                     ELSE Return_(str(resolved.value))
        errors == UNION { turn(key).errors : key \in placeholders }
    IN  IF placeholders = {} THEN Return_(text)
        ELSE IF errors # {} THEN Fail(errors)
        ELSE Return_(format(text, [key \in placeholders |-> turn(key).text]))

\* params.setdefault("context", "none"), line 216
setdefault(params, key, value) ==
    IF key \in DOMAIN params THEN params
    ELSE [k \in DOMAIN params \cup {key} |-> IF k = key THEN value ELSE params[k]]

\* get_prompt up to line 231: the base prompt, or the error of a first step
base_prompt(name, kwargs) ==
    IF ~HasKey(TASK, name)
    THEN Fail({Error("ValueError", "TemplateNotFound", name, <<>>)})
    ELSE LET task == Get(TASK, name)
             role == IF HasKey(ROLE, task.role_key) THEN Get(ROLE, task.role_key).text
                     ELSE <<>>
             template == task.template
             params == setdefault(kwargs, <<99, 111, 110, 116, 101, 120, 116>>, StrValue(<<110, 111, 110, 101>>))
             required_keys == _extract_placeholders(template)
             resolved(key) == _resolve_value(key, params)
             \* the except clause, lines 225-229
             raised_for(key) ==
                 IF resolved(key).error.type # "KeyError" THEN resolved(key).error
                 ELSE IF get_key_values(key).error # NoError
                      THEN get_key_values(key).error
                 ELSE Error("ValueError", "MissingParameter", key,
                            get_key_values(key).value.items)
             errors == { raised_for(key) :
                           key \in { k \in required_keys : resolved(k).error # NoError } }
         IN  IF template = <<>>
             THEN Fail({Error("ValueError", "TemplateMalformed", name, <<>>)})
             ELSE IF errors # {} THEN Fail(errors)
             ELSE Return_(role \o <<32>> \o
                          format(template, [key \in required_keys |-> str(resolved(key).value)]))

\* get_prompt, lines 192-232
get_prompt(name, kwargs) ==
    LET base == base_prompt(name, kwargs)
        params == setdefault(kwargs, <<99, 111, 110, 116, 101, 120, 116>>, StrValue(<<110, 111, 110, 101>>))
    IN  IF base.errors # {} THEN base
        ELSE _recursive_format(base.text, params, {})

\* the stack of the calls of _recursive_format that have not returned: the
\* text of a call, the keys on its path, the placeholders it has yet to
\* resolve, the values it has resolved, and the key of its caller it is for
Frame(text, seen_keys, key) ==
    [ text |-> text, seen_keys |-> seen_keys, key |-> key,
      placeholders |-> _extract_placeholders(text), resolved_params |-> <<>> ]

\* a test that finds no key on the path
never_on_path(seen_keys, key) == FALSE

\* line 310: `key in seen_keys`
on_path(seen_keys, key) == key \in seen_keys

\* lines 307-308 and 319: what a call returns once its placeholders are resolved
formatted(frame) ==
    IF _extract_placeholders(frame.text) = {} THEN frame.text
    ELSE format(frame.text, frame.resolved_params)

\* line 316: resolved_params[key] = value, the key being done
with_resolved(frame, key, text) ==
    [frame EXCEPT !.resolved_params = (key :> text) @@ @,
                  !.placeholders = @ \ {key}]

(* PromptStore: the calls *)

\* a keyword argument the caller leaves out
Absent == [kind |-> "absent", s |-> <<>>, items |-> <<>>]

Option(key, values) == [key |-> key, values |-> values]

\* params[key] = value
Put(params, key, value) ==
    [k \in DOMAIN params \cup {key} |-> IF k = key THEN value ELSE params[k]]

\* every dict of keyword arguments that takes, for each option, one of its values
RECURSIVE Kwargs(_)
Kwargs(options) ==
    IF options = <<>> THEN { <<>> }
    ELSE { IF value = Absent THEN rest ELSE Put(rest, Head(options).key, value) :
             rest \in Kwargs(Tail(options)), value \in Head(options).values }

\* get_prompt("describe", ...) with
\*   object: absent, 'image', '{recipient}', '{object}', '{goal}'
\*   recipient: absent, 'ai_model', '{object}', '{goal}'
\*   format: 'json', ['json'], ['json', 'markdown'], ['summary', 'json', 'markdown'], ['json', 'nope'], ['json', 'goal']
\*   goal: absent, 'exact_matching', '{object}'
\*   json: absent, 'yaml'
DescribeOptions ==
    << Option(<<111, 98, 106, 101, 99, 116>>, { Absent, StrValue(<<105, 109, 97, 103, 101>>), StrValue(<<123, 114, 101, 99, 105, 112, 105, 101, 110, 116, 125>>), StrValue(<<123, 111, 98, 106, 101, 99, 116, 125>>), StrValue(<<123, 103, 111, 97, 108, 125>>) }),
       Option(<<114, 101, 99, 105, 112, 105, 101, 110, 116>>, { Absent, StrValue(<<97, 105, 95, 109, 111, 100, 101, 108>>), StrValue(<<123, 111, 98, 106, 101, 99, 116, 125>>), StrValue(<<123, 103, 111, 97, 108, 125>>) }),
       Option(<<102, 111, 114, 109, 97, 116>>, { StrValue(<<106, 115, 111, 110>>), ListValue(<<<<106, 115, 111, 110>>>>), ListValue(<<<<106, 115, 111, 110>>, <<109, 97, 114, 107, 100, 111, 119, 110>>>>), ListValue(<<<<115, 117, 109, 109, 97, 114, 121>>, <<106, 115, 111, 110>>, <<109, 97, 114, 107, 100, 111, 119, 110>>>>), ListValue(<<<<106, 115, 111, 110>>, <<110, 111, 112, 101>>>>), ListValue(<<<<106, 115, 111, 110>>, <<103, 111, 97, 108>>>>) }),
       Option(<<103, 111, 97, 108>>, { Absent, StrValue(<<101, 120, 97, 99, 116, 95, 109, 97, 116, 99, 104, 105, 110, 103>>), StrValue(<<123, 111, 98, 106, 101, 99, 116, 125>>) }),
       Option(<<106, 115, 111, 110>>, { Absent, StrValue(<<121, 97, 109, 108>>) }) >>

\* get_prompt("keyword_extraction", ...) with
\*   object: 'text'
\*   recipient: absent, 'keyword_extractor'
\*   format: 'json', ['json', 'markdown']
\*   goal: absent, 'exact_matching'
\*   context: absent, None, 'number_limit', ['no_generic_terms', 'number_limit']
\*   min_keywords: absent, 3, '{goal}', '{max_keywords}'
\*   max_keywords: absent, 5, '{goal}', '{min_keywords}'
KeywordExtractionOptions ==
    << Option(<<111, 98, 106, 101, 99, 116>>, { StrValue(<<116, 101, 120, 116>>) }),
       Option(<<114, 101, 99, 105, 112, 105, 101, 110, 116>>, { Absent, StrValue(<<107, 101, 121, 119, 111, 114, 100, 95, 101, 120, 116, 114, 97, 99, 116, 111, 114>>) }),
       Option(<<102, 111, 114, 109, 97, 116>>, { StrValue(<<106, 115, 111, 110>>), ListValue(<<<<106, 115, 111, 110>>, <<109, 97, 114, 107, 100, 111, 119, 110>>>>) }),
       Option(<<103, 111, 97, 108>>, { Absent, StrValue(<<101, 120, 97, 99, 116, 95, 109, 97, 116, 99, 104, 105, 110, 103>>) }),
       Option(<<99, 111, 110, 116, 101, 120, 116>>, { Absent, NoneValue, StrValue(<<110, 117, 109, 98, 101, 114, 95, 108, 105, 109, 105, 116>>), ListValue(<<<<110, 111, 95, 103, 101, 110, 101, 114, 105, 99, 95, 116, 101, 114, 109, 115>>, <<110, 117, 109, 98, 101, 114, 95, 108, 105, 109, 105, 116>>>>) }),
       Option(<<109, 105, 110, 95, 107, 101, 121, 119, 111, 114, 100, 115>>, { Absent, IntValue(<<51>>), StrValue(<<123, 103, 111, 97, 108, 125>>), StrValue(<<123, 109, 97, 120, 95, 107, 101, 121, 119, 111, 114, 100, 115, 125>>) }),
       Option(<<109, 97, 120, 95, 107, 101, 121, 119, 111, 114, 100, 115>>, { Absent, IntValue(<<53>>), StrValue(<<123, 103, 111, 97, 108, 125>>), StrValue(<<123, 109, 105, 110, 95, 107, 101, 121, 119, 111, 114, 100, 115, 125>>) }) >>

\* get_prompt("translate", ...) with
\*   object: absent, 'text'
\*   source_language: absent, 'English'
\*   target_language: absent, 'German'
\*   recipient: absent, 'ai_model'
TranslateOptions ==
    << Option(<<111, 98, 106, 101, 99, 116>>, { Absent, StrValue(<<116, 101, 120, 116>>) }),
       Option(<<115, 111, 117, 114, 99, 101, 95, 108, 97, 110, 103, 117, 97, 103, 101>>, { Absent, StrValue(<<69, 110, 103, 108, 105, 115, 104>>) }),
       Option(<<116, 97, 114, 103, 101, 116, 95, 108, 97, 110, 103, 117, 97, 103, 101>>, { Absent, StrValue(<<71, 101, 114, 109, 97, 110>>) }),
       Option(<<114, 101, 99, 105, 112, 105, 101, 110, 116>>, { Absent, StrValue(<<97, 105, 95, 109, 111, 100, 101, 108>>) }) >>

Call_(name, kwargs) == [name |-> name, params |-> kwargs]

\* the calls of get_prompt; "unregistered" names no task
PromptCalls ==
    { Call_(<<100, 101, 115, 99, 114, 105, 98, 101>>, kwargs) : kwargs \in Kwargs(DescribeOptions) }
    \cup { Call_(<<107, 101, 121, 119, 111, 114, 100, 95, 101, 120, 116, 114, 97, 99, 116, 105, 111, 110>>, kwargs) : kwargs \in Kwargs(KeywordExtractionOptions) }
    \cup { Call_(<<116, 114, 97, 110, 115, 108, 97, 116, 101>>, kwargs) : kwargs \in Kwargs(TranslateOptions) }
    \cup { Call_(<<117, 110, 114, 101, 103, 105, 115, 116, 101, 114, 101, 100>>, <<>>) }

-----------------------------------------------------------------------------
(* JiraFactory.create_issue *)

\* an optional value: Nothing for None or an absent attribute or entry
Nothing == <<>>
Some(v) == <<v>>

\* type names of the tracker; "Improvement" has no variant of its own
TypeNames == { "Epic", "Story", "Innovation", "Task", "Bug", "Improvement" }

Person == [displayName |-> "Ada", emailAddress |-> "ada@example.org"]

\* a payload with every field the factory reads; `form` tells whether it is a
\* jira.resources.Issue or a dict
CompletePayload(form, name, subtask, parent, fixVersions) ==
    [ form |-> form,
      key |-> Some("P-7"),
      self |-> Some("https://jira.example.org/rest/api/2/issue/7"),
      fields |->
        [ summary |-> Some("Login fails"),
          description |-> Some("Steps to reproduce"),
          status |-> Some([name |-> "Open", statusCategory |-> "To Do"]),
          project |-> Some([name |-> "Shop"]),
          issuetype |-> Some([name |-> name, subtask |-> subtask]),
          assignee |-> Some(Person),
          reporter |-> Some(Person),
          created |-> Some("2024-05-01T10:00:00"),
          updated |-> Some("2024-05-02T10:00:00"),
          timespent |-> Some(3600),
          worklog |-> Some(<< [started |-> "2024-05-01T11:00:00", timeSpent |-> "1h",
                              timeSpentSeconds |-> 3600] >>),
          attachment |-> Some(<< [id |-> "10", filename |-> "trace.log"] >>),
          parent |-> parent,
          fixVersions |-> fixVersions ] ]

\* a parent reference; its key can be the empty string
Parents == { Nothing, Some([key |-> "P-1", summary |-> "Checkout"]),
             Some([key |-> "", summary |-> "Checkout"]) }

CompletePayloads ==
    { CompletePayload(form, name, subtask, parent, fixVersions) :
        form \in {"object", "mapping"}, name \in TypeNames, subtask \in BOOLEAN,
        parent \in Parents, fixVersions \in { Nothing, Some(<<"1.0">>) } }

\* the fields that upstream data can lack, and those that can be ""
OptionalFields ==
    { "summary", "description", "status", "project", "issuetype", "assignee",
      "reporter", "created", "updated", "timespent", "worklog", "attachment" }
StringFields == { "summary", "description" }

\* the payloads of the model: complete ones, and complete ones that lack the
\* key or one field, or hold "" in one field
Payloads ==
    CompletePayloads
    \cup { [p EXCEPT !.key = Nothing] : p \in CompletePayloads }
    \cup { [p EXCEPT !.fields[f] = Nothing] : p \in CompletePayloads, f \in OptionalFields }
    \cup { [p EXCEPT !.fields[f] = Some("")] : p \in CompletePayloads, f \in StringFields }

\* get_field, lines 30-33: the value of the attribute or entry; the default
\* for an absent one, for None and for ""
get_field(issue_fields, field_name, default) ==
    IF issue_fields[field_name] = Nothing THEN default
    ELSE IF field_name \in StringFields /\ issue_fields[field_name] = Some("") THEN default
    ELSE issue_fields[field_name]

\* parse_user, lines 35-53: a user that is present becomes a JiraUser
parse_user(user) ==
    IF user = Nothing THEN Nothing
    ELSE Some([displayName |-> user[1].displayName, emailAddress |-> user[1].emailAddress])

\* parse_worklogs, lines 55-79: hasattr(worklog_obj, "worklogs") holds for the
\* worklog attribute of an Issue; it does not for a dict, nor for the default {}
parse_worklogs(worklog_obj, is_dict) ==
    IF is_dict \/ worklog_obj = Nothing THEN <<>> ELSE worklog_obj[1]

\* how a call of the factory ends: with a value, or with an exception
NoIssue == [variant |-> "None"]
Result(v, warned) == [raised |-> "None", value |-> v, warned |-> warned]
Raises(e, warned) == [raised |-> e, value |-> NoIssue, warned |-> warned]

\* parse_fields, lines 115-179: the entries of the dict in the order of their
\* evaluation. issue.key and x.name raise AttributeError, issue['key'] raises
\* KeyError and None['name'] raises TypeError.
parse_fields(issue, is_dict) ==
    LET issue_fields == issue.fields
        absent == IF is_dict THEN "KeyError" ELSE "AttributeError"
        of_none == IF is_dict THEN "TypeError" ELSE "AttributeError"
    IN  IF issue.key = Nothing THEN Raises(absent, FALSE)
        ELSE IF get_field(issue_fields, "status", Nothing) = Nothing
             THEN Raises(of_none, FALSE)
        ELSE IF get_field(issue_fields, "project", Nothing) = Nothing
             THEN Raises(of_none, FALSE)
        ELSE IF get_field(issue_fields, "issuetype", Nothing) = Nothing
             THEN Raises(of_none, FALSE)
        ELSE IF issue.self = Nothing THEN Raises(absent, FALSE)
        ELSE Result(
               [ key |-> issue.key,
                 summary |-> get_field(issue_fields, "summary", Nothing),
                 description |->
                     get_field(issue_fields, "description", Some("No description")),
                 status |-> Some(issue_fields.status[1].name),
                 statusCategory |-> Some(issue_fields.status[1].statusCategory),
                 project |-> Some(issue_fields.project[1].name),
                 issue_type |-> Some(issue_fields.issuetype[1].name),
                 assignee |-> parse_user(get_field(issue_fields, "assignee", Nothing)),
                 reporter |-> parse_user(get_field(issue_fields, "reporter", Nothing)),
                 created |-> get_field(issue_fields, "created", Nothing),
                 updated |-> get_field(issue_fields, "updated", Nothing),
                 timeSpentSeconds |-> get_field(issue_fields, "timespent", Some(0)),
                 url |-> issue.self,
                 worklogs |->
                     parse_worklogs(get_field(issue_fields, "worklog", Nothing), is_dict),
                 attachments |->
                     IF get_field(issue_fields, "attachment", Nothing) = Nothing
                     THEN <<>>
                     ELSE issue_fields.attachment[1] ],
               FALSE)

\* pydantic validation of the fields every variant inherits from JiraBaseIssue
\* (src/model/jira_models.py, lines 154-190): a field declared `str` or
\* `datetime` rejects None; those declared Optional accept it
Valid(base_kwargs) ==
    /\ base_kwargs.summary # Nothing
    /\ base_kwargs.created # Nothing
    /\ base_kwargs.updated # Nothing

\* a variant's constructor: the inherited fields and the variant's own ones.
\* parent_summary belongs to JiraSubtask, parent_description to JiraTask, fixed
\* to JiraBug; a variant that does not declare a field holds Nothing there.
Construct(variant, base_kwargs, own, warned) ==
    IF ~Valid(base_kwargs) THEN Raises("ValidationError", warned)
    ELSE Result(
           [ variant |-> variant,
             key |-> base_kwargs.key,
             summary |-> base_kwargs.summary,
             description |-> base_kwargs.description,
             status |-> base_kwargs.status,
             statusCategory |-> base_kwargs.statusCategory,
             project |-> base_kwargs.project,
             issue_type |-> base_kwargs.issue_type,
             assignee |-> base_kwargs.assignee,
             reporter |-> base_kwargs.reporter,
             created |-> base_kwargs.created,
             updated |-> base_kwargs.updated,
             timeSpentSeconds |-> base_kwargs.timeSpentSeconds,
             url |-> base_kwargs.url,
             worklogs |-> base_kwargs.worklogs,
             attachments |-> base_kwargs.attachments,
             parent_key |-> own.parent_key,
             parent_summary |-> own.parent_summary,
             parent_description |-> own.parent_description,
             fixed |-> own.fixed ],
           warned)

NoOwnFields ==
    [ parent_key |-> Nothing, parent_summary |-> Nothing,
      parent_description |-> Nothing, fixed |-> Nothing ]

\* JiraSubtask(**base_kwargs, parent_key=..., parent_summary=...), lines 192-196
JiraSubtask(base_kwargs, parent_key, parent_summary) ==
    Construct("JiraSubtask", base_kwargs,
              [NoOwnFields EXCEPT !.parent_key = Some(parent_key),
                                  !.parent_summary = Some(parent_summary)],
              FALSE)

\* JiraTask(**base_kwargs, parent_key=..., parent_summary=...), lines 203-207:
\* JiraTask declares parent_key and parent_description; the model ignores the
\* keyword parent_summary, which it does not declare
JiraTask(base_kwargs, parent_key, parent_summary) ==
    Construct("JiraTask", base_kwargs,
              [NoOwnFields EXCEPT !.parent_key = parent_key], FALSE)

\* JiraBug(**base_kwargs, fixed=...), lines 210-213
JiraBug(base_kwargs, fixed) ==
    Construct("JiraBug", base_kwargs, [NoOwnFields EXCEPT !.fixed = Some(fixed)], FALSE)

\* a dispatch that looks at the type name Epic before the subtask flag
create_issue_epic_first(issue) ==
    LET is_dict == issue.form = "mapping"
        parsed == parse_fields(issue, is_dict)
        base_kwargs == parsed.value
        issue_fields == issue.fields
        issuetype == issue_fields.issuetype[1]
        parent == issue_fields.parent
    IN  IF parsed.raised # "None" THEN parsed
        \* line 188: issue.key, whatever the form; a dict has no such attribute
        ELSE IF is_dict THEN Raises("AttributeError", FALSE)
        ELSE IF issuetype.name = "Epic"
             THEN Construct("JiraEpic", base_kwargs, NoOwnFields, FALSE)
        ELSE IF issuetype.subtask
             THEN IF parent = Nothing THEN Raises("AttributeError", FALSE)
                  ELSE JiraSubtask(base_kwargs, parent[1].key, parent[1].summary)
        ELSE IF issuetype.name \in {"Story", "Innovation"}
             THEN Construct("JiraStory", base_kwargs, NoOwnFields, FALSE)
        ELSE IF issuetype.name = "Task"
             THEN IF parent # Nothing
                  THEN JiraTask(base_kwargs, Some(parent[1].key), Some(parent[1].summary))
                  ELSE JiraTask(base_kwargs, Nothing, Nothing)
        ELSE IF issuetype.name = "Bug"
             THEN IF issue_fields.fixVersions = Nothing
                  THEN Raises("AttributeError", FALSE)
                  ELSE JiraBug(base_kwargs, issue_fields.fixVersions[1])
        \* lines 215-221: the warning reads fields.summary, then the base model
        ELSE IF issue_fields.summary = Nothing THEN Raises("AttributeError", FALSE)
        ELSE Construct("JiraBaseIssue", base_kwargs, NoOwnFields, TRUE)

\* create_issue, lines 102-221
create_issue(issue) ==
    LET is_dict == issue.form = "mapping"
        parsed == parse_fields(issue, is_dict)
        base_kwargs == parsed.value
        issue_fields == issue.fields
        issuetype == issue_fields.issuetype[1]
        parent == issue_fields.parent
    IN  IF parsed.raised # "None" THEN parsed
        \* line 188: issue.key, whatever the form; a dict has no such attribute
        ELSE IF is_dict THEN Raises("AttributeError", FALSE)
        ELSE IF issuetype.subtask
             THEN IF parent = Nothing THEN Raises("AttributeError", FALSE)
                  ELSE JiraSubtask(base_kwargs, parent[1].key, parent[1].summary)
        ELSE IF issuetype.name = "Epic"
             THEN Construct("JiraEpic", base_kwargs, NoOwnFields, FALSE)
        ELSE IF issuetype.name \in {"Story", "Innovation"}
             THEN Construct("JiraStory", base_kwargs, NoOwnFields, FALSE)
        ELSE IF issuetype.name = "Task"
             THEN IF parent # Nothing
                  THEN JiraTask(base_kwargs, Some(parent[1].key), Some(parent[1].summary))
                  ELSE JiraTask(base_kwargs, Nothing, Nothing)
        ELSE IF issuetype.name = "Bug"
             THEN IF issue_fields.fixVersions = Nothing
                  THEN Raises("AttributeError", FALSE)
                  ELSE JiraBug(base_kwargs, issue_fields.fixVersions[1])
        \* lines 215-221: the warning reads fields.summary, then the base model
        ELSE IF issue_fields.summary = Nothing THEN Raises("AttributeError", FALSE)
        ELSE Construct("JiraBaseIssue", base_kwargs, NoOwnFields, TRUE)

-----------------------------------------------------------------------------
(* JiraIngestor: src/jira_tools/ingestor.py, with the statements of
   src/db/query_store.py and execute_sql of src/db/vectordb_client.py *)

Quote == <<39>>[1]

\* value.replace("'", "''")
RECURSIVE replace_quotes(_)
replace_quotes(s) ==
    IF s = <<>> THEN <<>>
    ELSE (IF Head(s) = Quote THEN <<Quote, Quote>> ELSE <<Head(s)>>)
             \o replace_quotes(Tail(s))

\* sql_escape, ingestor.py lines 35-36: "" for None and for ""
sql_escape(value) ==
    IF value = Nothing \/ value = Some(<<>>) THEN <<>> ELSE replace_quotes(value[1])

\* what str.format puts in for a value: the text of a string, None for None
text_of(value) == IF value = Nothing THEN <<78, 111, 110, 101>> ELSE value[1]

\* issue.assignee.displayName if issue.assignee else ""
displayName(user) == IF user = Nothing THEN <<>> ELSE user[1].displayName

\* the variants that declare parent_key (jira_models.py lines 235 and 289)
hasattr_parent_key(issue) == issue.variant \in {"JiraSubtask", "JiraTask"}

\* a column of a VALUES clause: '{name}' when quoted, {name} when not
Column(name, quoted) == [name |-> name, quoted |-> quoted]

\* QueryStore.SQL_TEMPLATES, query_store.py lines 150-168: the table and the
\* VALUES clause of each insert statement
SQL_TEMPLATES ==
    [ insert_jira_subtask |->
        [ table |-> "jira_subtask",
          columns |-> << Column("key", TRUE), Column("parent_key", TRUE),
                         Column("summary", TRUE), Column("summary_vector", TRUE),
                         Column("description", TRUE),
                         Column("description_vector", TRUE),
                         Column("status", TRUE), Column("status_category", TRUE),
                         Column("assignee", TRUE), Column("created", TRUE),
                         Column("updated", TRUE),
                         Column("time_spent_seconds", FALSE), Column("url", TRUE) >> ],
      insert_jira_task |->
        [ table |-> "jira_task",
          columns |-> << Column("key", TRUE), Column("parent_key", TRUE),
                         Column("summary", TRUE), Column("summary_vector", TRUE),
                         Column("description", TRUE),
                         Column("description_vector", TRUE),
                         Column("issue_type", TRUE), Column("status", TRUE),
                         Column("status_category", TRUE), Column("project", TRUE),
                         Column("assignee", TRUE), Column("reporter", TRUE),
                         Column("created", TRUE), Column("updated", TRUE),
                         Column("time_spent_seconds", FALSE), Column("url", TRUE) >> ],
      insert_jira_bug |->
        [ table |-> "jira_bug",
          columns |-> << Column("key", TRUE), Column("summary", TRUE),
                         Column("summary_vector", TRUE), Column("description", TRUE),
                         Column("description_vector", TRUE),
                         Column("issue_type", TRUE), Column("status", TRUE),
                         Column("status_category", TRUE), Column("project", TRUE),
                         Column("assignee", TRUE), Column("reporter", TRUE),
                         Column("created", TRUE), Column("updated", TRUE),
                         Column("time_spent_seconds", FALSE), Column("url", TRUE) >> ] ]

\* the VALUES clause with the parameters put in for the placeholders
RECURSIVE format_values(_, _)
format_values(columns, params) ==
    IF columns = <<>> THEN <<41, 59>>
    ELSE LET column == Head(columns)
             value == params[column.name]
             item == IF column.quoted THEN <<Quote>> \o value \o <<Quote>> ELSE value
         IN  item \o (IF Len(columns) > 1 THEN <<44, 32>> ELSE <<>>)
                  \o format_values(Tail(columns), params)

\* how a call of the ingestor's collaborators ends
Statement(table, columns, text) ==
    [raised |-> "None", table |-> table, columns |-> columns, text |-> text]
NoStatement(e) == [raised |-> e, table |-> "", columns |-> <<>>, text |-> <<>>]

\* QueryStore.get_sql, query_store.py lines 181-191: str.format raises
\* KeyError for a placeholder without a parameter; parameters without a
\* placeholder are left out
get_sql(query_name, params) ==
    IF query_name \notin DOMAIN SQL_TEMPLATES THEN NoStatement("ValueError")
    ELSE LET template == SQL_TEMPLATES[query_name]
             names == { template.columns[n].name : n \in 1..Len(template.columns) }
         IN  IF names \subseteq DOMAIN params
             THEN Statement(template.table, template.columns,
                            <<40>> \o format_values(template.columns, params))
             ELSE NoStatement("KeyError")

\* the store reads a string literal whose opening quote stands before place i:
\* two quotes are one quote of the value, one quote ends the literal
RECURSIVE read_literal(_, _, _)
read_literal(text, i, acc) ==
    IF i > Len(text) THEN [ok |-> FALSE, value |-> acc, next |-> i]
    ELSE IF text[i] # Quote THEN read_literal(text, i + 1, Append(acc, text[i]))
    ELSE IF i < Len(text) /\ text[i + 1] = Quote
         THEN read_literal(text, i + 2, Append(acc, Quote))
    ELSE [ok |-> TRUE, value |-> acc, next |-> i + 1]

\* the store reads a number that starts at place i
RECURSIVE read_number(_, _, _)
read_number(text, i, acc) ==
    IF i <= Len(text) /\ text[i] \in { <<48, 49, 50, 51, 52, 53, 54, 55, 56, 57>>[n] : n \in 1..10 }
    THEN read_number(text, i + 1, Append(acc, text[i]))
    ELSE [ok |-> acc # <<>>, value |-> acc, next |-> i]

\* the store reads the values of a VALUES clause from place i on
RECURSIVE read_values(_, _, _)
read_values(text, i, acc) ==
    IF i > Len(text) THEN [ok |-> FALSE, values |-> acc]
    ELSE LET item == IF text[i] = Quote THEN read_literal(text, i + 1, <<>>)
                     ELSE read_number(text, i, <<>>)
             after == Rest(text, item.next)
         IN  IF ~item.ok THEN [ok |-> FALSE, values |-> acc]
             ELSE IF after = <<41, 59>> THEN [ok |-> TRUE, values |-> Append(acc, item.value)]
             ELSE IF Len(after) > 2 /\ SubSeq(after, 1, 2) = <<44, 32>>
                  THEN read_values(text, item.next + 2, Append(acc, item.value))
             ELSE [ok |-> FALSE, values |-> acc]

\* the tables the ingestor writes; jira_issue, the third table issue_exists
\* looks at, is written by no statement of the ingestor
EmptyStore == [jira_task |-> <<>>, jira_bug |-> <<>>, jira_subtask |-> <<>>]

\* the failure of a collaborator during one turn: none, the embedding service
\* (an openai error), or the connection of the store (psycopg2 errors)
NoFault == [at |-> "nowhere", error |-> "None"]
Faults ==
    { NoFault,
      [at |-> "create_embedding", error |-> "OpenAIError"],
      [at |-> "execute", error |-> "OperationalError"],
      [at |-> "execute", error |-> "InterfaceError"] }

\* psycopg2: the classes an except clause for DatabaseError catches;
\* InterfaceError is a psycopg2.Error outside them
DatabaseErrors ==
    { "DatabaseError", "ProgrammingError", "IntegrityError", "OperationalError" }

\* whether `except classes` catches the exception e
caught(e, classes) ==
    e \in classes \/ ("DatabaseError" \in classes /\ e \in DatabaseErrors)

\* how a call that works on the store ends
Outcome(e, store_, statement, params) ==
    [raised |-> e, store |-> store_, statement |-> statement, params |-> params]

\* VectorDB.execute_sql with the name of an insert statement,
\* vectordb_client.py lines 357-383: get_sql outside the try, then
\* cursor.execute and commit; a statement the store cannot read, or one with
\* another number of values than columns, is a ProgrammingError
execute_sql(store_, sql_statement, sql_params, fault) ==
    LET statement == get_sql(sql_statement, sql_params)
        row == read_values(statement.text, 2, <<>>)
    IN  IF statement.raised # "None"
        THEN Outcome(statement.raised, store_, statement, sql_params)
        ELSE IF fault.at = "execute"
             THEN Outcome(fault.error, store_, statement, sql_params)
        ELSE IF ~row.ok \/ Len(row.values) # Len(statement.columns)
             THEN Outcome("ProgrammingError", store_, statement, sql_params)
        ELSE Outcome("None",
                     [store_ EXCEPT ![statement.table] = Append(@, row.values)],
                     statement, sql_params)

\* the issue_exists query, query_store.py lines 170-178, answered by the store
issue_exists(store_, key) ==
    \/ \E n \in 1..Len(store_.jira_task) : store_.jira_task[n][1] = key
    \/ \E n \in 1..Len(store_.jira_bug) : store_.jira_bug[n][1] = key

\* the parameters every insert is called with, ingestor.py lines 44-54
common_params(issue, summary) ==
    [ key |-> text_of(issue.key),
      summary |-> summary,
      summary_vector |-> <<91, 48, 46, 53, 93>>,
      status |-> text_of(issue.status),
      status_category |-> text_of(issue.statusCategory),
      assignee |-> displayName(issue.assignee),
      created |-> text_of(issue.created),
      updated |-> text_of(issue.updated),
      time_spent_seconds |-> text_of(issue.timeSpentSeconds),
      url |-> text_of(issue.url) ]

\* a dict with more entries
with(params, more) ==
    [ name \in DOMAIN params \cup DOMAIN more |->
        IF name \in DOMAIN more THEN more[name] ELSE params[name] ]

\* the parameters of lines 58-75 and 78-94
full_params(issue) ==
    with(common_params(issue, sql_escape(issue.summary)),
         [ description |-> sql_escape(issue.description),
           description_vector |-> <<91, 48, 46, 53, 93>>,
           issue_type |-> text_of(issue.issue_type),
           project |-> text_of(issue.project),
           reporter |-> displayName(issue.reporter) ])

\* an exception that passes the except clauses of a method leaves it; one
\* that is caught is logged, and the method returns
handled(out, classes) ==
    IF caught(out.raised, classes)
    THEN [out EXCEPT !.raised = "None"] @@ [logged |-> out.raised]
    ELSE out @@ [logged |-> "None"]

\* JiraIngestor.ingest_issue, lines 29-105
ingest_issue(store_, issue, fault) ==
    LET classes == { "AttributeError", "KeyError", "ValueError", "TypeError",
                     "RuntimeError", "DatabaseError" }
        nothing == NoStatement("None")
        out ==
          IF fault.at = "create_embedding"
          THEN Outcome(fault.error, store_, nothing, <<>>)
          ELSE IF issue.variant = "JiraSubtask"
               THEN execute_sql(store_, "insert_jira_subtask",
                        with(common_params(issue, sql_escape(issue.summary)),
                             [parent_key |-> text_of(issue.parent_key)]),
                        fault)
          ELSE IF issue.variant \in {"JiraTask", "JiraEpic", "JiraStory"}
               THEN execute_sql(store_, "insert_jira_task",
                        with(full_params(issue),
                             [parent_key |-> IF hasattr_parent_key(issue)
                                             THEN text_of(issue.parent_key)
                                             ELSE <<78, 111, 110, 101>>]),
                        fault)
          ELSE IF issue.variant = "JiraBug"
               THEN execute_sql(store_, "insert_jira_bug", full_params(issue), fault)
          ELSE Outcome("ValueError", store_, nothing, <<>>)
    IN  handled(out, classes)

\* JiraIngestor.ingest_subtask, lines 108-142: subtask.summary.replace
ingest_subtask(store_, subtask, fault) ==
    LET classes == { "AttributeError", "KeyError", "ValueError", "TypeError",
                     "RuntimeError" }
        out ==
          IF fault.at = "create_embedding"
          THEN Outcome(fault.error, store_, NoStatement("None"), <<>>)
          ELSE execute_sql(store_, "insert_jira_subtask",
                   with(common_params(subtask, replace_quotes(subtask.summary[1])),
                        [parent_key |-> text_of(subtask.parent_key)]),
                   fault)
    IN  handled(out, classes)

-----------------------------------------------------------------------------

(* Actions *)

\* no repository built, no traversal started
GraphIdle ==
    /\ _issue_map = <<>>
    /\ pc = "new"
    /\ issue_key = <<>>
    /\ queue = <<>>
    /\ seen_issue_keys = {}
    /\ connected_issue_objects = <<>>
    /\ result = <<>>
    /\ raised = "None"
    /\ all_issues = new_list(<<>>)

\* keyword_search entered, nothing computed yet
KwIdle ==
    /\ kw_pc = "start"
    /\ keywords = <<>>
    /\ issues = <<>>
    /\ kw_result = <<>>
    /\ kw_raised = "None"

\* get_prompt not called
PromptIdle ==
    /\ prompt_pc = "idle"
    /\ prompt_name = <<>>
    /\ prompt_params = <<>>
    /\ prompt_text = <<>>
    /\ prompt_raised = NoError
    /\ frames = <<>>

\* create_issue not called
FactoryIdle ==
    /\ factory_pc = "idle"
    /\ raw_issue = NoIssue
    /\ created_issue = NoIssue
    /\ factory_warned = FALSE
    /\ factory_raised = "None"

\* fetch_issues not called
FetchIdle ==
    /\ fetch_pc = "idle"
    /\ fetch_module = "handler"
    /\ source = <<>>
    /\ start_at = 0
    /\ fetch_issues_list = <<>>
    /\ pages = <<>>

\* the ingestor not called
IngestIdle ==
    /\ ingest_pc = "idle"
    /\ ingest_args = <<>>
    /\ position = 0
    /\ store = EmptyStore
    /\ calls = <<>>
    /\ ingest_raised = "None"
    /\ faulted = FALSE

\* keyword_search not called
KwUnused ==
    /\ category = <<"summary", "description">>
    /\ match_mode = "contains"
    /\ llm = [failed |-> FALSE, value |-> <<>>]
    /\ jira = [failed |-> FALSE, value |-> <<>>]
    /\ KwIdle

Init ==
    /\ batch \in Batches(MaxBatch, MaxLinks)
    /\ GraphIdle
    /\ KwUnused
    /\ PromptIdle
    /\ FactoryIdle
    /\ FetchIdle
    /\ IngestIdle

\* IssueRepository.__init__
RepositoryInit ==
    /\ pc = "new"
    /\ _issue_map' = BuildMap(batch, <<>>)
    /\ pc' = "idle"
    /\ UNCHANGED <<batch, issue_key, queue, seen_issue_keys,
                   connected_issue_objects, result, raised>>
    /\ UNCHANGED all_issues
    /\ UNCHANGED <<kwVars, promptVars, factoryVars, fetchVars, ingestVars>>

\* get_connected_issues, lines 123-128: get_issue_by_key raises on a miss
Call(k) ==
    /\ pc \in {"idle", "done", "error"}
    /\ issue_key' = k
    /\ result' = <<>>
    /\ connected_issue_objects' = <<>>
    /\ IF get_issue(_issue_map, k) = None
       THEN /\ pc' = "error"
            /\ raised' = "IssueNotFoundException"
            /\ queue' = <<>>
            /\ seen_issue_keys' = {}
       ELSE /\ pc' = "loop"
            /\ raised' = "None"
            /\ queue' = <<get_issue(_issue_map, k).key>>
            /\ seen_issue_keys' = {get_issue(_issue_map, k).key}
    /\ UNCHANGED <<batch, _issue_map>>
    /\ UNCHANGED all_issues
    /\ UNCHANGED <<kwVars, promptVars, factoryVars, fetchVars, ingestVars>>

\* LoopStep that looks every key up with get_issue_by_key, which raises on a miss
LoopStepRaising ==
    /\ pc = "loop"
    /\ queue # <<>>
    /\ IF get_issue(_issue_map, Head(queue)) = None
       THEN /\ pc' = "error"
            /\ raised' = "IssueNotFoundException"
            /\ UNCHANGED <<queue, seen_issue_keys, connected_issue_objects>>
       ELSE LET st == Iterate(_issue_map, LoopState(queue, seen_issue_keys,
                                                    connected_issue_objects))
            IN  /\ queue' = st.queue
                /\ seen_issue_keys' = st.seen
                /\ connected_issue_objects' = st.connected
                /\ UNCHANGED <<pc, raised>>
    /\ UNCHANGED <<batch, _issue_map, issue_key, result>>
    /\ UNCHANGED all_issues
    /\ UNCHANGED <<kwVars, promptVars, factoryVars, fetchVars, ingestVars>>

\* one iteration of the while loop, lines 130-153
LoopStep ==
    /\ pc = "loop"
    /\ queue # <<>>
    /\ LET st == Iterate(_issue_map, LoopState(queue, seen_issue_keys,
                                               connected_issue_objects))
       IN  /\ queue' = st.queue
           /\ seen_issue_keys' = st.seen
           /\ connected_issue_objects' = st.connected
    /\ UNCHANGED <<batch, _issue_map, pc, issue_key, result, raised>>
    /\ UNCHANGED all_issues
    /\ UNCHANGED <<kwVars, promptVars, factoryVars, fetchVars, ingestVars>>

\* loop exit, lines 155-156
Return ==
    /\ pc = "loop"
    /\ queue = <<>>
    /\ result' = SortByKey(connected_issue_objects)
    /\ pc' = "done"
    /\ UNCHANGED <<batch, _issue_map, issue_key, queue, seen_issue_keys,
                   connected_issue_objects, raised>>
    /\ UNCHANGED all_issues
    /\ UNCHANGED <<kwVars, promptVars, factoryVars, fetchVars, ingestVars>>

vars == <<graphVars, kwVars, promptVars, factoryVars, fetchVars, ingestVars>>

Next ==
    \/ RepositoryInit
    \/ \E k \in Keys : Call(k)
    \/ LoopStep
    \/ Return

Spec == Init /\ [][Next]_vars

\* IssueRepository.get_issue, lines 81-83
GetIssue(k) ==
    /\ pc \in {"idle", "done", "error"}
    /\ issue_key' = k
    /\ result' = IF get_issue(_issue_map, k) = None THEN <<>>
                 ELSE <<get_issue(_issue_map, k)>>
    /\ raised' = "None"
    /\ pc' = "done"
    /\ UNCHANGED <<batch, _issue_map, queue, seen_issue_keys,
                   connected_issue_objects, all_issues>>
    /\ UNCHANGED <<kwVars, promptVars, factoryVars, fetchVars, ingestVars>>

\* JiraIssueService.get_issue_by_key, lines 98-106
GetIssueByKey(k) ==
    /\ pc \in {"idle", "done", "error"}
    /\ issue_key' = k
    /\ IF get_issue(_issue_map, k) = None
       THEN /\ pc' = "error"
            /\ raised' = "IssueNotFoundException"
            /\ result' = <<>>
       ELSE /\ pc' = "done"
            /\ raised' = "None"
            /\ result' = <<get_issue(_issue_map, k)>>
    /\ UNCHANGED <<batch, _issue_map, queue, seen_issue_keys,
                   connected_issue_objects, all_issues>>
    /\ UNCHANGED <<kwVars, promptVars, factoryVars, fetchVars, ingestVars>>

\* IssueRepository.get_all_issues, lines 85-87
GetAllIssues ==
    /\ pc \in {"idle", "done", "error"}
    /\ all_issues' = new_list(get_all_issues(_issue_map))
    /\ UNCHANGED <<batch, _issue_map, pc, issue_key, queue, seen_issue_keys,
                   connected_issue_objects, result, raised>>
    /\ UNCHANGED <<kwVars, promptVars, factoryVars, fetchVars, ingestVars>>

\* the caller of get_all_issues shortens the list it got: del all_issues[n:].
\* A list that is the repository's own storage changes the repository.
ChangeList(n) ==
    /\ pc \in {"idle", "done", "error"}
    /\ n < Len(all_issues.items)
    /\ all_issues' = [all_issues EXCEPT !.items = SubSeq(@, 1, n)]
    /\ _issue_map' = IF all_issues.shared THEN SubSeq(_issue_map, 1, n) ELSE _issue_map
    /\ UNCHANGED <<batch, pc, issue_key, queue, seen_issue_keys,
                   connected_issue_objects, result, raised>>
    /\ UNCHANGED <<kwVars, promptVars, factoryVars, fetchVars, ingestVars>>

\* the repository and its service, called in any order after construction
RepoNext ==
    \/ Next
    \/ \E k \in Keys : GetIssue(k)
    \/ \E k \in Keys : GetIssueByKey(k)
    \/ GetAllIssues
    \/ \E n \in 0..MaxBatch : ChangeList(n)

RepoInit ==
    /\ batch \in Batches(MaxBatch, RepoLinks)
    /\ GraphIdle
    /\ KwUnused
    /\ PromptIdle
    /\ FactoryIdle
    /\ FetchIdle
    /\ IngestIdle

RepoSpec == RepoInit /\ [][RepoNext]_vars

\* keyword_search is called: its arguments and what its collaborators will answer
KwInit ==
    /\ batch = <<>>
    /\ GraphIdle
    /\ category \in Categories
    /\ match_mode \in MatchModes
    /\ llm \in { Answer(r) : r \in Responses } \cup {Failure}
    /\ jira \in { Answer(l) : l \in IssueLists(MaxIssues) } \cup {Failure}
    /\ KwIdle
    /\ PromptIdle
    /\ FactoryIdle
    /\ FetchIdle
    /\ IngestIdle

\* line 93: keywords = get_keywords(query); a failing prompt() call propagates
GetKeywords ==
    /\ kw_pc = "start"
    /\ IF llm.failed
       THEN /\ kw_pc' = "error"
            /\ kw_raised' = "PromptError"
            /\ UNCHANGED keywords
       ELSE /\ kw_pc' = "keywords"
            /\ keywords' = get_keywords(llm.value)
            /\ UNCHANGED kw_raised
    /\ UNCHANGED <<category, match_mode, llm, jira, issues, kw_result>>
    /\ UNCHANGED <<graphVars, promptVars, factoryVars, fetchVars, ingestVars>>

\* lines 95-97: issues = hdlr.fetch_and_parse_issues(...); a failing fetch propagates
FetchIssues ==
    /\ kw_pc = "keywords"
    /\ IF jira.failed
       THEN /\ kw_pc' = "error"
            /\ kw_raised' = "FetchError"
            /\ UNCHANGED issues
       ELSE /\ kw_pc' = "fetched"
            /\ issues' = jira.value
            /\ UNCHANGED kw_raised
    /\ UNCHANGED <<category, match_mode, llm, jira, keywords, kw_result>>
    /\ UNCHANGED <<graphVars, promptVars, factoryVars, fetchVars, ingestVars>>

\* lines 101-107: the filter and the return; is_match's ValueError propagates
Filter ==
    /\ kw_pc = "fetched"
    /\ LET kept == FilterIssues(issues, keywords, category, match_mode)
       IN  IF kept.raised
           THEN /\ kw_pc' = "error"
                /\ kw_raised' = "ValueError"
                /\ UNCHANGED kw_result
           ELSE /\ kw_pc' = "done"
                /\ kw_result' = kept.value
                /\ UNCHANGED kw_raised
    /\ UNCHANGED <<category, match_mode, llm, jira, keywords, issues>>
    /\ UNCHANGED <<graphVars, promptVars, factoryVars, fetchVars, ingestVars>>

KwNext ==
    \/ GetKeywords
    \/ FetchIssues
    \/ Filter

KwSpec == KwInit /\ [][KwNext]_vars

\* get_prompt is called
PromptInit ==
    /\ batch = <<>>
    /\ GraphIdle
    /\ KwUnused
    /\ \E call \in PromptCalls :
          /\ prompt_name = call.name
          /\ prompt_params = call.params
    /\ prompt_pc = "start"
    /\ prompt_text = <<>>
    /\ prompt_raised = NoError
    /\ frames = <<>>
    /\ FactoryIdle
    /\ FetchIdle
    /\ IngestIdle

\* get_prompt, lines 192-232: it returns the prompt, or it raises the error of
\* the first key that fails in the iteration order of its set of keys
GetPrompt ==
    /\ prompt_pc = "start"
    /\ LET out == get_prompt(prompt_name, prompt_params)
       IN  IF out.errors = {}
           THEN /\ prompt_pc' = "done"
                /\ prompt_text' = out.text
                /\ UNCHANGED prompt_raised
           ELSE /\ prompt_pc' = "error"
                /\ prompt_raised' \in out.errors
                /\ UNCHANGED prompt_text
    /\ UNCHANGED <<prompt_name, prompt_params, frames>>
    /\ UNCHANGED <<graphVars, kwVars, factoryVars, fetchVars, ingestVars>>

PromptNext == GetPrompt

PromptSpec == PromptInit /\ [][PromptNext]_vars

\* get_prompt, lines 205-232, up to the call of _recursive_format
Begin ==
    /\ prompt_pc = "start"
    /\ LET base == base_prompt(prompt_name, prompt_params)
       IN  IF base.errors # {}
           THEN /\ prompt_pc' = "error"
                /\ prompt_raised' \in base.errors
                /\ UNCHANGED frames
           ELSE /\ prompt_pc' = "format"
                /\ frames' = <<Frame(base.text, {}, <<>>)>>
                /\ UNCHANGED prompt_raised
    /\ UNCHANGED <<prompt_name, prompt_params, prompt_text>>
    /\ UNCHANGED <<graphVars, kwVars, factoryVars, fetchVars, ingestVars>>

\* the parameters of the running call, after setdefault
CallParams ==
    setdefault(prompt_params, <<99, 111, 110, 116, 101, 120, 116>>, StrValue(<<110, 111, 110, 101>>))

\* one turn of the loop of lines 309-317 in the innermost call, for a key in
\* the iteration order of the set: the key is on the path, or it has no
\* value, and the error leaves every call
RaiseInLoop ==
    /\ prompt_pc = "format"
    /\ \E key \in frames[Len(frames)].placeholders :
          /\ LET top == frames[Len(frames)]
                 resolved == _resolve_value(key, CallParams)
             IN  /\ on_path(top.seen_keys, key) \/ resolved.error # NoError
                 /\ prompt_raised' \in IF on_path(top.seen_keys, key)
                                        THEN cyclic_reference(key).errors
                                        ELSE {resolved.error}
    /\ prompt_pc' = "error"
    /\ UNCHANGED <<prompt_name, prompt_params, prompt_text, frames>>
    /\ UNCHANGED <<graphVars, kwVars, factoryVars, fetchVars, ingestVars>>

\* lines 314-315: the value is a string that holds "{"; a call for it begins
\* with a copy of the path
Recurse ==
    /\ prompt_pc = "format"
    /\ \E key \in frames[Len(frames)].placeholders :
          /\ LET top == frames[Len(frames)]
                 resolved == _resolve_value(key, CallParams)
             IN  /\ ~on_path(top.seen_keys, key)
                 /\ resolved.error = NoError
                 /\ resolved.value.kind = "str"
                 /\ \E n \in 1..Len(resolved.value.s) : resolved.value.s[n] = 123
                 /\ frames' = Append(frames, Frame(resolved.value.s, top.seen_keys \cup {key}, key))
    /\ UNCHANGED <<prompt_pc, prompt_name, prompt_params, prompt_text, prompt_raised>>
    /\ UNCHANGED <<graphVars, kwVars, factoryVars, fetchVars, ingestVars>>

\* lines 313 and 316-317: the value holds no "{" and is kept as it is
Resolve ==
    /\ prompt_pc = "format"
    /\ \E key \in frames[Len(frames)].placeholders :
          /\ LET top == frames[Len(frames)]
                 resolved == _resolve_value(key, CallParams)
             IN  /\ ~on_path(top.seen_keys, key)
                 /\ resolved.error = NoError
                 /\ ~(/\ resolved.value.kind = "str"
                      /\ \E n \in 1..Len(resolved.value.s) : resolved.value.s[n] = 123)
                 /\ frames' = [frames EXCEPT ![Len(frames)] =
                                  with_resolved(top, key, str(resolved.value))]
    /\ UNCHANGED <<prompt_pc, prompt_name, prompt_params, prompt_text, prompt_raised>>
    /\ UNCHANGED <<graphVars, kwVars, factoryVars, fetchVars, ingestVars>>

\* lines 307-308 and 319: the innermost call returns, to the call that made
\* it or, for the first call, to get_prompt, which returns the text
ReturnFormatted ==
    /\ prompt_pc = "format"
    /\ frames[Len(frames)].placeholders = {}
    /\ LET top == frames[Len(frames)]
           caller == frames[Len(frames) - 1]
       IN  IF Len(frames) = 1
           THEN /\ prompt_text' = formatted(top)
                /\ prompt_pc' = "done"
                /\ frames' = <<>>
           ELSE /\ frames' = [SubSeq(frames, 1, Len(frames) - 1) EXCEPT ![Len(frames) - 1] =
                                with_resolved(caller, top.key, formatted(top))]
                /\ UNCHANGED <<prompt_pc, prompt_text>>
    /\ UNCHANGED <<prompt_name, prompt_params, prompt_raised>>
    /\ UNCHANGED <<graphVars, kwVars, factoryVars, fetchVars, ingestVars>>

PromptStepNext ==
    \/ Begin
    \/ RaiseInLoop
    \/ Recurse
    \/ Resolve
    \/ ReturnFormatted

\* the call is between its first statement and its return or raise; a step
\* of PromptStepNext is possible exactly in these states
PromptRunning == prompt_pc \in {"start", "format"}

\* a sequential call goes on until it returns or raises: weak fairness of the
\* next step, WF_vars(PromptStepNext), with its enabling condition written
\* out as PromptRunning
PromptFair == []<>(~PromptRunning) \/ []<><<PromptStepNext>>_vars

PromptStepSpec == PromptInit /\ [][PromptStepNext]_vars /\ PromptFair

\* create_issue is called with a payload
FactoryInit ==
    /\ batch = <<>>
    /\ GraphIdle
    /\ KwUnused
    /\ PromptIdle
    /\ FetchIdle
    /\ IngestIdle
    /\ raw_issue \in Payloads
    /\ factory_pc = "start"
    /\ created_issue = NoIssue
    /\ factory_warned = FALSE
    /\ factory_raised = "None"

\* create_issue, lines 102-221: it returns a model, or an exception leaves it
CreateIssue ==
    /\ factory_pc = "start"
    /\ LET out == create_issue(raw_issue)
       IN  /\ factory_pc' = IF out.raised = "None" THEN "done" ELSE "error"
           /\ created_issue' = out.value
           /\ factory_warned' = out.warned
           /\ factory_raised' = out.raised
    /\ UNCHANGED raw_issue
    /\ UNCHANGED <<graphVars, kwVars, promptVars, fetchVars, ingestVars>>

FactoryNext == CreateIssue

FactorySpec == FactoryInit /\ [][FactoryNext]_vars

-----------------------------------------------------------------------------
(* fetch_issues: src/jira_tools/handler.py and src/pipeline.py *)

\* largest number of issues a query matches
MaxTotal == 210

\* handler.py line 20
handler_max_results == 50

\* pipeline.py line 173
pipeline_max_results == 100

max_results(module) ==
    IF module = "handler" THEN handler_max_results ELSE pipeline_max_results

\* the issues a query matches, told apart by their place in the server's order
Source(total) == [n \in 1..total |-> n]

\* jira_client.search_issues(jql, startAt=..., maxResults=...): the page of at
\* most maxResults issues that starts after the first startAt ones
search_issues(all, startAt, maxResults) ==
    SubSeq(all, startAt + 1, IF startAt + maxResults < Len(all)
                             THEN startAt + maxResults ELSE Len(all))

\* a page that is full as well ends the loop
short_or_full(page, maxResults) == Len(page) <= maxResults

\* len(batch) < max_results
short_page(page, maxResults) == Len(page) < maxResults

Page(offset, page) == [startAt |-> offset, size |-> Len(page)]

\* fetch_issues is called
FetchInit ==
    /\ batch = <<>>
    /\ GraphIdle
    /\ KwUnused
    /\ PromptIdle
    /\ FactoryIdle
    /\ IngestIdle
    /\ fetch_pc = "loop"
    /\ fetch_module \in {"handler", "pipeline"}
    /\ source \in { Source(total) : total \in 0..MaxTotal }
    /\ start_at = 0
    /\ fetch_issues_list = <<>>
    /\ pages = <<>>

\* one turn of the loop of handler.py, lines 21-28
HandlerRequest ==
    /\ fetch_pc = "loop"
    /\ fetch_module = "handler"
    /\ LET page == search_issues(source, start_at, handler_max_results)
       IN  /\ pages' = Append(pages, Page(start_at, page))
           /\ IF page = <<>>
              THEN /\ fetch_pc' = "done"
                   /\ UNCHANGED <<fetch_issues_list, start_at>>
              ELSE /\ fetch_issues_list' = fetch_issues_list \o page
                   /\ IF short_page(page, handler_max_results)
                      THEN /\ fetch_pc' = "done"
                           /\ UNCHANGED start_at
                      ELSE /\ fetch_pc' = "loop"
                           /\ start_at' = start_at + handler_max_results
    /\ UNCHANGED <<fetch_module, source>>
    /\ UNCHANGED <<graphVars, kwVars, promptVars, factoryVars, ingestVars>>

\* one turn of the loop of pipeline.py, lines 175-181
PipelineRequest ==
    /\ fetch_pc = "loop"
    /\ fetch_module = "pipeline"
    /\ LET page == search_issues(source, start_at, pipeline_max_results)
       IN  /\ pages' = Append(pages, Page(start_at, page))
           /\ IF page = <<>>
              THEN /\ fetch_pc' = "done"
                   /\ UNCHANGED <<fetch_issues_list, start_at>>
              ELSE /\ fetch_issues_list' = fetch_issues_list \o page
                   /\ start_at' = start_at + pipeline_max_results
                   /\ fetch_pc' = IF short_page(page, pipeline_max_results)
                                  THEN "done" ELSE "loop"
    /\ UNCHANGED <<fetch_module, source>>
    /\ UNCHANGED <<graphVars, kwVars, promptVars, factoryVars, ingestVars>>

FetchNext == HandlerRequest \/ PipelineRequest

\* a sequential call: the loop keeps requesting pages until it breaks
FetchSpec == FetchInit /\ [][FetchNext]_vars /\ WF_vars(FetchNext)

-----------------------------------------------------------------------------
(* JiraIngestor: the calls *)

\* a resolved issue as the ingestor reads it; strings are sequences of code
\* points
IssueModel(variant, key, parent_key, texts) ==
    [ variant |-> variant,
      key |-> Some(key),
      parent_key |-> parent_key,
      summary |-> Some(texts.summary),
      description |-> Some(texts.description),
      issue_type |-> Some(<<84, 97, 115, 107>>),
      status |-> Some(texts.status),
      statusCategory |-> Some(<<84, 111, 32, 68, 111>>),
      project |-> Some(texts.project),
      assignee |-> Some([displayName |-> texts.assignee]),
      reporter |-> Some([displayName |-> texts.reporter]),
      created |-> Some(<<50, 48, 50, 52, 45, 48, 53, 45, 48, 49>>),
      updated |-> Some(<<50, 48, 50, 52, 45, 48, 53, 45, 48, 50>>),
      timeSpentSeconds |-> Some(<<51, 54, 48, 48>>),
      url |-> Some(texts.url) ]

PlainTexts ==
    [ summary |-> <<76, 111, 103, 105, 110>>, description |-> <<83, 116, 101, 112, 115>>, status |-> <<79, 112, 101, 110>>,
      project |-> <<83, 104, 111, 112>>, assignee |-> <<65, 100, 97>>, reporter |-> <<66, 111, 98>>, url |-> <<104, 116, 116, 112, 58, 47, 47, 106, 47, 55>> ]

\* field values without and with a single quote
TextChoices ==
    [ summary : {<<76, 111, 103, 105, 110>>, <<99, 97, 110, 39, 116>>}, description : {<<83, 116, 101, 112, 115>>, <<105, 116, 39, 115>>},
      status : {<<79, 112, 101, 110>>, <<87, 111, 110, 39, 116, 32, 68, 111>>}, project : {<<83, 104, 111, 112>>, <<74, 111, 101, 39, 115>>},
      assignee : {<<65, 100, 97>>, <<79, 39, 66, 114, 105, 101, 110>>}, reporter : {<<66, 111, 98>>, <<68, 39, 65, 114, 99, 121>>},
      url : {<<104, 116, 116, 112, 58, 47, 47, 106, 47, 55>>, <<104, 116, 116, 112, 58, 47, 47, 106, 47, 39, 55>>} ]

Variants == { "JiraSubtask", "JiraTask", "JiraEpic", "JiraStory", "JiraBug",
              "JiraBaseIssue" }

\* the issues ingest_issue and ingest_subtask are called with
SingleIssues ==
    { IssueModel(variant,
                 key,
                 IF variant = "JiraSubtask" THEN Some(<<80, 45, 49>>) ELSE Nothing,
                 texts) :
        variant \in Variants, key \in {<<80, 45, 55>>, <<80, 39, 55>>}, texts \in TextChoices }

EpicOf(key) == IssueModel("JiraEpic", key, Nothing, PlainTexts)
StoryOf(key) == IssueModel("JiraStory", key, Nothing, PlainTexts)
TaskOf(key) == IssueModel("JiraTask", key, Nothing, PlainTexts)
BugOf(key) == IssueModel("JiraBug", key, Nothing, PlainTexts)
SubtaskOf(key, parent_key) == IssueModel("JiraSubtask", key, Some(parent_key), PlainTexts)

\* parents of the subtasks: an epic, a bug, and an issue that is not ingested
ParentKeys == { <<69, 45, 49>>, <<66, 45, 49>>, <<88, 45, 57>> }

\* the calls of ingest_bulk
BulkCalls ==
    [ epics : { <<>>, <<EpicOf(<<69, 45, 49>>)>>, <<EpicOf(<<69, 45, 49>>), EpicOf(<<69, 45, 50>>)>> },
      stories : { <<>>, <<StoryOf(<<83, 45, 49>>)>> },
      tasks : { <<>>, <<TaskOf(<<84, 45, 49>>)>> },
      bugs : { <<>>, <<BugOf(<<66, 45, 49>>)>> },
      subtasks : { <<>> }
                 \cup { <<SubtaskOf(<<85, 45, 49>>, p)>> : p \in ParentKeys }
                 \cup { <<SubtaskOf(<<85, 45, 49>>, p), SubtaskOf(<<85, 45, 50>>, q)>> :
                          p \in ParentKeys, q \in ParentKeys } ]

\* the failures a turn can meet: at most one collaborator fails during a call
FaultsNow == IF faulted THEN {NoFault} ELSE Faults

\* what a turn did: the method called for the issue, the answer of
\* issue_exists where it was asked, and how the method ended
Turn(issue, method, exists, out) ==
    [ key |-> issue.key[1], method |-> method, exists |-> exists,
      raised |-> out.raised, logged |-> out.logged,
      statement |-> out.statement.text, params |-> out.params,
      inserted |-> out.store # store ]

\* ingest_issue or ingest_subtask is called with one issue
SingleInit ==
    /\ batch = <<>>
    /\ GraphIdle
    /\ KwUnused
    /\ PromptIdle
    /\ FactoryIdle
    /\ FetchIdle
    /\ ingest_pc = "single"
    /\ ingest_args \in { [issue |-> issue] : issue \in SingleIssues }
    /\ position = 0
    /\ store = EmptyStore
    /\ calls = <<>>
    /\ ingest_raised = "None"
    /\ faulted = FALSE

\* how a method of the ingestor ends when it is called by itself
EndOfCall(issue, method, out) ==
    /\ calls' = Append(calls, Turn(issue, method, Nothing, out))
    /\ store' = out.store
    /\ ingest_raised' = out.raised
    /\ ingest_pc' = IF out.raised = "None" THEN "done" ELSE "error"
    /\ UNCHANGED <<ingest_args, position, faulted>>
    /\ UNCHANGED <<graphVars, kwVars, promptVars, factoryVars, fetchVars>>

\* JiraIngestor.ingest_issue, lines 29-105
IngestIssue ==
    /\ ingest_pc = "single"
    /\ EndOfCall(ingest_args.issue, "ingest_issue",
                 ingest_issue(store, ingest_args.issue, NoFault))

\* JiraIngestor.ingest_subtask, lines 108-142
IngestSubtask ==
    /\ ingest_pc = "single"
    /\ ingest_args.issue.variant = "JiraSubtask"
    /\ EndOfCall(ingest_args.issue, "ingest_subtask",
                 ingest_subtask(store, ingest_args.issue, NoFault))

SingleNext == IngestIssue \/ IngestSubtask

SingleSpec == SingleInit /\ [][SingleNext]_vars

\* ingest_bulk is called
BulkInit ==
    /\ batch = <<>>
    /\ GraphIdle
    /\ KwUnused
    /\ PromptIdle
    /\ FactoryIdle
    /\ FetchIdle
    /\ ingest_pc = "bulk"
    /\ ingest_args \in BulkCalls
    /\ position = 0
    /\ store = EmptyStore
    /\ calls = <<>>
    /\ ingest_raised = "None"
    /\ faulted = FALSE

\* stories + tasks + bugs, line 180
second_loop(args) == args.stories \o args.tasks \o args.bugs

\* a turn of one of the three loops ends: an exception the except clause of
\* the loop does not name leaves ingest_bulk
EndOfTurn(issue, method, exists, out, classes, fault) ==
    LET after == handled(out, classes)
    IN  /\ calls' = Append(calls, Turn(issue, method, exists, out))
        /\ store' = out.store
        /\ faulted' = (faulted \/ fault # NoFault)
        /\ IF after.raised = "None"
           THEN /\ position' = position + 1
                /\ UNCHANGED <<ingest_pc, ingest_raised>>
           ELSE /\ ingest_pc' = "error"
                /\ ingest_raised' = after.raised
                /\ UNCHANGED position
        /\ UNCHANGED ingest_args
        /\ UNCHANGED <<graphVars, kwVars, promptVars, factoryVars, fetchVars>>

\* a turn of the loop over the epics, lines 173-177
IngestEpic ==
    /\ ingest_pc = "bulk"
    /\ position < Len(ingest_args.epics)
    /\ \E fault \in FaultsNow :
         LET epic == ingest_args.epics[position + 1]
         IN  EndOfTurn(epic, "ingest_issue", Nothing, ingest_issue(store, epic, fault),
                       {"ValueError", "DatabaseError"}, fault)

\* a turn of the loop over stories + tasks + bugs, lines 180-184
IngestStoryTaskBug ==
    /\ ingest_pc = "bulk"
    /\ position >= Len(ingest_args.epics)
    /\ position < Len(ingest_args.epics) + Len(second_loop(ingest_args))
    /\ \E fault \in FaultsNow :
         LET issue == second_loop(ingest_args)[position - Len(ingest_args.epics) + 1]
         IN  EndOfTurn(issue, "ingest_issue", Nothing, ingest_issue(store, issue, fault),
                       {"ValueError", "DatabaseError"}, fault)

\* the issues the first two loops pass
BeforeSubtasks(args) == Len(args.epics) + Len(second_loop(args))

\* nothing was done to the store
Untouched(e) == Outcome(e, store, NoStatement("None"), <<>>) @@ [logged |-> "None"]

\* a turn of the loop over the subtasks, lines 187-199: the issue_exists
\* query, then ingest_subtask or the warning
CheckAndIngestSubtask ==
    /\ ingest_pc = "bulk"
    /\ position >= BeforeSubtasks(ingest_args)
    /\ position < BeforeSubtasks(ingest_args) + Len(ingest_args.subtasks)
    /\ \E fault \in FaultsNow :
         LET subtask == ingest_args.subtasks[position - BeforeSubtasks(ingest_args) + 1]
             parent_issue_exists == issue_exists(store, subtask.parent_key[1])
             classes == {"KeyError", "DatabaseError"}
         IN  IF fault.at = "execute"
             THEN EndOfTurn(subtask, "issue_exists", Nothing, Untouched(fault.error),
                            classes, fault)
             ELSE IF parent_issue_exists
                  THEN EndOfTurn(subtask, "ingest_subtask", Some(TRUE),
                                 ingest_subtask(store, subtask, fault), classes, fault)
             ELSE EndOfTurn(subtask, "warning", Some(FALSE), Untouched("None"),
                            classes, NoFault)

\* the three loops are through: ingest_bulk returns
BulkReturn ==
    /\ ingest_pc = "bulk"
    /\ position = BeforeSubtasks(ingest_args) + Len(ingest_args.subtasks)
    /\ ingest_pc' = "done"
    /\ UNCHANGED <<ingest_args, position, store, calls, ingest_raised, faulted>>
    /\ UNCHANGED <<graphVars, kwVars, promptVars, factoryVars, fetchVars>>

BulkNext ==
    \/ IngestEpic
    \/ IngestStoryTaskBug
    \/ CheckAndIngestSubtask
    \/ BulkReturn

BulkSpec == BulkInit /\ [][BulkNext]_vars

-----------------------------------------------------------------------------
(* connected_issues_for_key: src/agent_utils/issue_tools.py, lines 158-186 *)

\* a payload as the tracker returns it for a search: the fields of the
\* factory's payloads, and the tracker's own list of subtask references
FetchedPayload(key, name, subtask, parent, subtask_keys) ==
    LET payload == CompletePayload("object", name, subtask, parent, Some(<<"1.0">>))
    IN  [payload EXCEPT !.key = Some(key),
                        !.fields = @ @@ [subtasks |-> subtask_keys]]

\* a parent P-1 with its subtask P-2, in either order, alone or followed by
\* an issue without links
FetchedBatches ==
    LET P(name) == FetchedPayload(<<80, 45, 49>>, name, FALSE, Nothing, <<<<80, 45, 50>>>>)
        S == FetchedPayload(<<80, 45, 50>>, "Task", TRUE,
                            Some([key |-> <<80, 45, 49>>, summary |-> "Checkout"]), <<>>)
        other == FetchedPayload(<<80, 45, 49, 48>>, "Story", FALSE, Nothing, <<>>)
    IN  UNION { { <<P(name), S>>, <<S, P(name)>>, <<P(name), S, other>>,
                  <<other, S, P(name)>> } : name \in {"Epic", "Story", "Task", "Bug"} }

\* the fields of a resolved issue the traversal reads. A field no keyword was
\* passed for holds its default: subtasks is Field(default_factory=list),
\* jira_models.py line 182; a variant without parent_key has no such attribute
resolved_issue(model) ==
    Issue(model.key[1],
          IF model.parent_key = Nothing THEN NoParent ELSE model.parent_key[1],
          IF "subtasks" \in DOMAIN model THEN model.subtasks ELSE <<>>)

\* fetch_and_parse_issues, handler.py lines 44-48
fetch_and_parse_issues(payloads) ==
    [n \in 1..Len(payloads) |-> resolved_issue(create_issue(payloads[n]).value)]

\* connected_issues_for_key is called: the tracker holds the payloads
ConnectInit ==
    /\ batch = <<>>
    /\ _issue_map = <<>>
    /\ pc = "fetch"
    /\ issue_key = <<>>
    /\ queue = <<>>
    /\ seen_issue_keys = {}
    /\ connected_issue_objects = <<>>
    /\ result = <<>>
    /\ raised = "None"
    /\ all_issues = new_list(<<>>)
    /\ KwUnused
    /\ PromptIdle
    /\ FactoryIdle
    /\ IngestIdle
    /\ fetch_pc = "idle"
    /\ fetch_module = "handler"
    /\ source \in FetchedBatches
    /\ start_at = 0
    /\ fetch_issues_list = <<>>
    /\ pages = <<>>

\* line 176: all_project_issues = fetch_and_parse_issues(...), one page
FetchAndParse ==
    /\ pc = "fetch"
    /\ batch' = fetch_and_parse_issues(source)
    /\ pc' = "new"
    /\ fetch_pc' = "done"
    /\ fetch_issues_list' = source
    /\ pages' = <<Page(0, source)>>
    /\ UNCHANGED <<fetch_module, source, start_at>>
    /\ UNCHANGED <<_issue_map, issue_key, queue, seen_issue_keys,
                   connected_issue_objects, result, raised, all_issues>>
    /\ UNCHANGED <<kwVars, promptVars, factoryVars, ingestVars>>

\* lines 176-186: the batch is fetched, the repository is built, and
\* get_connected_issues runs for a key
ConnectNext ==
    \/ FetchAndParse
    \/ RepositoryInit
    \/ \E k \in Keys : Call(k)
    \/ LoopStep
    \/ Return

ConnectSpec == ConnectInit /\ [][ConnectNext]_vars

\* the scheduling of a sequential call: the loop keeps iterating, then returns
DistinctKeys(list) ==
    \A a, b \in 1..Len(list) : a # b => list[a].key # list[b].key

\* Every repository a batch can build is built by a batch of distinct keys as well
FairInit == Init /\ DistinctKeys(batch)

FairSpec == FairInit /\ [][Next]_vars /\ WF_vars(LoopStep) /\ WF_vars(Return)

-----------------------------------------------------------------------------
(* Definitions the properties are stated with *)

Range(seq) == { seq[n] : n \in 1..Len(seq) }

\* the keys an issue links to: its parent_key when set, and its subtasks
Links(issue) ==
    (IF issue.parent_key # NoParent THEN {issue.parent_key} ELSE {})
        \cup Range(issue.subtasks)

\* least set that holds the keys of R and the links of every issue of m found under it
RECURSIVE Closure(_, _)
Closure(m, R) ==
    LET more == R \cup UNION { Links(get_issue(m, k)) : k \in R \cap KeysOf(m) }
    IN  IF more = R THEN R ELSE Closure(m, more)

Reachable(m, start) == { get_issue(m, k) : k \in Closure(m, {start}) \cap KeysOf(m) }

\* the whole loop, lines 130-153, run to its end
RECURSIVE RunLoop(_, _)
RunLoop(m, st) == IF st.queue = <<>> THEN st ELSE RunLoop(m, Iterate(m, st))

\* keys of the issues get_connected_issues(start) returns, start being in m
ConnectedKeys(m, start) ==
    { i.key : i \in Range(SortByKey(RunLoop(m, LoopState(<<start>>, {start}, <<>>)).connected)) }

StartIssue == get_issue(_issue_map, issue_key)

-----------------------------------------------------------------------------
(* Properties *)

\* C1: the returned issues are exactly the repository's issues whose key is
\* reachable from the start over parent_key and subtasks links, each once.
C1_ConnectedIsReachable ==
    pc = "done" =>
        /\ Range(result) = Reachable(_issue_map, issue_key)
        /\ Len(result) = Cardinality(Reachable(_issue_map, issue_key))

\* a three-issue chain: the third issue is reached only through the second
C1_Witness ==
    /\ pc = "done"
    /\ Len(result) = MaxBatch
    /\ \E i \in Range(result) : i.key \notin Links(StartIssue) \cup {issue_key}

\* Strictly decreasing with every iteration, bounded below by 0
Measure == 2 * Cardinality(Keys \ seen_issue_keys) + Len(queue)

\* C2: get_connected_issues terminates for every repository and every start
\* key, cyclic and self-referencing links included: each iteration lowers a
\* natural-number measure, and a started traversal reaches its return.
C2_TraversalTerminates ==
    /\ [][LoopStep => Measure' < Measure]_vars
    /\ (pc = "loop") ~> (pc = "done")

\* A is the parent of B and B the parent of A; the traversal from A returned both
C2_Witness ==
    /\ pc = "done"
    /\ Len(result) > 1
    /\ StartIssue.parent_key \in KeysOf(_issue_map) \ {issue_key}
    /\ get_issue(_issue_map, StartIssue.parent_key).parent_key = issue_key

\* C3: the returned list is in ascending order of issue key.
C3_ResultSorted ==
    pc = "done" =>
        \A a, b \in 1..Len(result) : a < b => StrLess(result[a].key, result[b].key)

\* the traversal met the issues in another order than the one returned
C3_Witness ==
    /\ pc = "done"
    /\ Len(result) = MaxBatch
    /\ result # connected_issue_objects

\* C4: the call fails with IssueNotFound exactly when the start key is absent
\* from the repository, and a call whose start key is present never fails.
C4_NotFoundIffStartAbsent ==
    pc \in {"loop", "done", "error"} =>
        /\ (raised = "IssueNotFoundException") <=> (issue_key \notin KeysOf(_issue_map))
        /\ (pc = "error") <=> (raised # "None")
        /\ raised \in {"None", "IssueNotFoundException"}

\* a traversal that met a key naming no issue has returned without failing
C4_Witness ==
    /\ pc = "done"
    /\ raised = "None"
    /\ seen_issue_keys \ KeysOf(_issue_map) # {}

\* C5: a dangling key is skipped: the result holds only repository issues, the
\* issues linked after the dangling key are still returned, and an issue whose
\* only link is a dangling subtask key yields exactly that issue.
C5_DanglingSkipped ==
    pc = "done" =>
        /\ Range(result) \subseteq Range(_issue_map)
        /\ \A i \in Range(result) : \A k \in Links(i) \cap KeysOf(_issue_map) :
                get_issue(_issue_map, k) \in Range(result)
        /\ ( /\ StartIssue.parent_key = NoParent
             /\ Len(StartIssue.subtasks) = 1
             /\ StartIssue.subtasks[1] \notin KeysOf(_issue_map) )
           => result = <<StartIssue>>

\* the start lists a dangling key before a present one, and the present one is returned
C5_Witness ==
    /\ pc = "done"
    /\ Len(StartIssue.subtasks) > 1
    /\ StartIssue.subtasks[1] \notin KeysOf(_issue_map)
    /\ StartIssue.subtasks[Len(StartIssue.subtasks)] \in KeysOf(_issue_map) \ {issue_key}
    /\ Len(result) > 1

\* C6: connectivity is symmetric: an issue B is returned for start A exactly
\* when A is returned for start B.
C6_Undirected ==
    pc = "done" =>
        \A b \in KeysOf(_issue_map) :
            (get_issue(_issue_map, b) \in Range(result))
                <=> (issue_key \in ConnectedKeys(_issue_map, b))

\* C7: after construction every issue of the batch is held by the repository,
\* unless the construction failed: no duplicate is overwritten without a trace.
C7_NoSilentOverwrite ==
    pc = "idle" =>
        \/ raised # "None"
        \/ \A n \in 1..Len(batch) : batch[n] \in Range(get_all_issues(_issue_map))

\* keyword kw matches the text of category cat of issue i under the call's mode
Matches(i, kw, cat) == is_match(getattr(i, cat), kw, match_mode).value

EveryKeywordMatches(i) ==
    \A kw \in Range(keywords) : \E cat \in Range(category) : Matches(i, kw, cat)

\* C8: keyword_search returns, in fetch order, exactly the fetched issues for
\* which every keyword matches at least one of the categories.
C8_AllKeywordsAnyCategory ==
    kw_pc = "done" => kw_result = SelectSeq(issues, EveryKeywordMatches)

\* two keywords, two categories: a returned issue matches each keyword in a
\* different category only, and another fetched issue is left out
C8_Witness ==
    /\ kw_pc = "done"
    /\ Len(keywords) > 1
    /\ Len(kw_result) < Len(issues)
    /\ \E i \in Range(kw_result) :
          /\ Matches(i, keywords[1], "summary") /\ ~Matches(i, keywords[1], "description")
          /\ Matches(i, keywords[2], "description") /\ ~Matches(i, keywords[2], "summary")
          /\ category = <<"summary", "description">>

\* C9: a call with a match mode other than strict, fuzzy or contains, whose
\* keyword extraction and fetch succeeded, ends with a ValueError.
C9_UnknownModeRaises ==
    ( /\ kw_pc \in {"done", "error"}
      /\ match_mode \notin {"strict", "fuzzy", "contains"}
      /\ ~llm.failed
      /\ ~jira.failed )
    => (kw_pc = "error" /\ kw_raised = "ValueError")

\* C10: a call whose keyword extraction or fetch failed returns an empty list
\* and raises nothing.
C10_FailsSoftly ==
    (kw_pc \in {"done", "error"} /\ (llm.failed \/ jira.failed))
    => (kw_pc = "done" /\ kw_result = <<>> /\ kw_raised = "None")


\* the keyword occurs in the text at position `at`, letter case ignored
OccursAt(text, keyword, at) ==
    /\ at + Len(keyword) - 1 <= Len(text)
    /\ \A n \in 1..Len(keyword) : LowerChar(text[at + n - 1]) = LowerChar(keyword[n])

\* some occurrence has no word character right before it and none right after
WholeWordOccurrence(text, keyword) ==
    \E at \in 1..(Len(text) + 1) :
        /\ OccursAt(text, keyword, at)
        /\ at = 1 \/ ~IsWordChar(text[at - 1])
        /\ at + Len(keyword) > Len(text) \/ ~IsWordChar(text[at + Len(keyword)])

Bug == <<98, 117, 103>>
Debugging == <<100, 101, 98, 117, 103, 103, 105, 110, 103>>

\* C11: in strict mode keyword_search returns exactly the fetched issues in
\* which every keyword has, in some category, a case-insensitive occurrence
\* with no word character right before it and none right after it; "bug" is
\* matched in "debugging" by the contains mode and not by the strict mode.
C11_StrictWholeWord ==
    /\ (kw_pc = "done" /\ match_mode = "strict")
       => \A n \in 1..Len(issues) :
             (issues[n] \in Range(kw_result))
             <=> \A kw \in Range(keywords) : \E cat \in Range(category) :
                    WholeWordOccurrence(getattr(issues[n], cat), kw)
    /\ (kw_pc = "done" /\ keywords = <<Bug>> /\ category = <<"summary">>)
       => \A n \in 1..Len(issues) :
             issues[n].summary = Debugging
             => /\ match_mode = "strict" => issues[n] \notin Range(kw_result)
                /\ match_mode = "contains" => issues[n] \in Range(kw_result)

\* a strict search for "bug" returns the issue whose summary is "Bug" and leaves
\* out the one whose summary is "debugging"
C11_Witness ==
    /\ kw_pc = "done"
    /\ match_mode = "strict"
    /\ keywords = <<Bug>>
    /\ category = <<"summary">>
    /\ \E i \in Range(issues) : i.summary = Debugging /\ i \notin Range(kw_result)
    /\ \E i \in Range(kw_result) : i.summary = <<66, 117, 103>>

-----------------------------------------------------------------------------
(* PromptStore: properties *)

\* the call has ended
PromptEnded == prompt_pc \in {"done", "error"}

\* the parameters get_prompt works with
Params == setdefault(prompt_params, <<99, 111, 110, 116, 101, 120, 116>>, StrValue(<<110, 111, 110, 101>>))

\* the value the caller passed for a key
Param(key) == IF key \in DOMAIN prompt_params THEN prompt_params[key] ELSE Absent

\* the keys of the call's parameters whose value is a list
ListKeys == { key \in DOMAIN Params : Params[key].kind = "list" }

\* the resolved items of the list passed for a key, in list order
ItemTexts(key) == resolve_items(key, Params[key].items, Params).items

\* the items from the first to the last but one, each followed by ", "
RECURSIVE Leading(_)
Leading(texts) ==
    IF Len(texts) <= 1 THEN <<>>
    ELSE Head(texts) \o <<44, 32>> \o Leading(Tail(texts))

\* one item: the item; two: "A and B"; more: "A, B, and C"
ListProse(texts) ==
    IF Len(texts) = 1 THEN texts[1]
    ELSE IF Len(texts) = 2 THEN texts[1] \o <<32, 97, 110, 100, 32>> \o texts[2]
    ELSE Leading(texts) \o <<97, 110, 100, 32>> \o texts[Len(texts)]

HasBrace(text) == \E n \in 1..Len(text) : text[n] \in {123, 125}

\* C12: a list-valued parameter whose items all resolve resolves to the prose
\* of its resolved items in list order (the item itself, "A and B", or
\* "A, B, and C"), and a returned prompt contains that prose in the place of
\* the parameter's placeholder.
C12_ListProse ==
    PromptEnded =>
        \A key \in ListKeys :
            resolve_items(key, Params[key].items, Params).error = NoError
            => /\ _resolve_value(key, Params) = Value(StrValue(ListProse(ItemTexts(key))))
               /\ ( /\ prompt_pc = "done"
                    /\ key \in _extract_placeholders(Get(TASK, prompt_name).template)
                    /\ ~HasBrace(ListProse(ItemTexts(key))) )
                  => Contains(prompt_text, ListProse(ItemTexts(key)))

\* describe returned a prompt for a format list of three items
C12_Witness ==
    /\ prompt_pc = "done"
    /\ prompt_name = <<100, 101, 115, 99, 114, 105, 98, 101>>
    /\ Param(<<102, 111, 114, 109, 97, 116>>) = ListValue(<< <<115, 117, 109, 109, 97, 114, 121>>, <<106, 115, 111, 110>>, <<109, 97, 114, 107, 100, 111, 119, 110>> >>)
    /\ Contains(prompt_text, <<70, 111, 114, 109, 97, 116, 32, 121, 111, 117, 114, 32, 114, 101, 115, 112, 111, 110, 115, 101, 32, 97, 115, 32, 97, 32, 99, 111, 110, 99, 105, 115, 101, 32, 115, 117, 109, 109, 97, 114, 121, 32, 40, 100, 111, 32, 110, 111, 116, 32, 117, 115, 101, 32, 99, 111, 100, 101, 32, 98, 108, 111, 99, 107, 115, 32, 111, 114, 32, 109, 97, 114, 107, 100, 111, 119, 110, 32, 102, 111, 114, 109, 97, 116, 116, 105, 110, 103, 41, 44, 32, 97, 115, 32, 74, 83, 79, 78, 32, 115, 116, 114, 117, 99, 116, 117, 114, 101, 100, 32, 100, 97, 116, 97, 44, 32, 97, 110, 100, 32, 102, 111, 114, 109, 97, 116, 116, 101, 100, 32, 105, 110, 32, 109, 97, 114, 107, 100, 111, 119, 110, 32, 102, 111, 114, 32, 114, 101, 97, 100, 97, 98, 105, 108, 105, 116, 121, 46>>)

\* the registered template of the call
Template == Get(TASK, prompt_name).template

\* the keys whose placeholders the expansion of a key contains
References(key) ==
    LET resolved == _resolve_value(key, Params)
    IN  IF resolved.error = NoError /\ resolved.value.kind = "str"
        THEN _extract_placeholders(resolved.value.s)
        ELSE {}

\* the keys a set of keys leads to through the expansions
RECURSIVE LeadsTo(_)
LeadsTo(found) ==
    LET more == found \cup UNION { References(key) : key \in found }
    IN  IF more = found THEN found ELSE LeadsTo(more)

\* the keys the resolution of the prompt can meet
MetKeys ==
    IF HasKey(TASK, prompt_name) THEN LeadsTo(_extract_placeholders(Template)) ELSE {}

\* the expansion of the key leads back to the key
OnCycle(key) == key \in LeadsTo(References(key))

\* every key the resolution can meet has a value
AllResolve == \A key \in MetKeys : _resolve_value(key, Params).error = NoError

\* C13: when the expansion of a key of the prompt contains the key's own
\* placeholder, or the placeholder of a key whose expansion leads back to it,
\* get_prompt returns no string: it fails, and with the cyclic-reference
\* ValueError naming a key of the cycle when no other key of the prompt fails
\* to resolve (the error of the key that fails first is the one raised).
C13_CycleRaises ==
    (PromptEnded /\ \E key \in MetKeys : OnCycle(key))
    => /\ prompt_pc = "error"
       /\ AllResolve
          => /\ prompt_raised.type = "ValueError"
             /\ prompt_raised.kind = "CyclicReference"
             /\ OnCycle(prompt_raised.key)

\* object expands to {recipient} and recipient to {object}; and a call whose
\* object expands to {object}: both ended with the cyclic-reference error
C13_Witness ==
    /\ prompt_pc = "error"
    /\ prompt_raised.kind = "CyclicReference"
    /\ AllResolve
    /\ \/ /\ Param(<<111, 98, 106, 101, 99, 116>>) = StrValue(<<123, 114, 101, 99, 105, 112, 105, 101, 110, 116, 125>>)
          /\ Param(<<114, 101, 99, 105, 112, 105, 101, 110, 116>>) = StrValue(<<123, 111, 98, 106, 101, 99, 116, 125>>)
       \/ Param(<<111, 98, 106, 101, 99, 116>>) = StrValue(<<123, 111, 98, 106, 101, 99, 116, 125>>)

\* the placeholders of the prompt that get_prompt hands to _recursive_format
BasePlaceholders ==
    UNION { References(key) : key \in _extract_placeholders(Template) }

\* the sets of keys whose placeholders stand side by side in one text
Siblings ==
    { _extract_placeholders(Template), BasePlaceholders }
    \cup { References(key) : key \in MetKeys }

\* two different placeholders of one text expand to texts with a common key
SharedKey ==
    \E keys \in Siblings : \E a, b \in keys :
        a # b /\ References(a) \cap References(b) # {}

\* C14: when two different placeholders of one text expand to texts that
\* contain the same key, no key of the prompt leads back to itself, and every
\* key has a value, get_prompt returns a prompt with no placeholder left.
C14_PathScoped ==
    ( /\ PromptEnded
      /\ HasKey(TASK, prompt_name)
      /\ SharedKey
      /\ \A key \in MetKeys : ~OnCycle(key)
      /\ AllResolve )
    => /\ prompt_pc = "done"
       /\ prompt_raised = NoError
       /\ ~HasBrace(prompt_text)

\* {min_keywords} and {max_keywords} stand in one text and both expand to
\* {goal}: the prompt is returned with the goal in both places
C14_Witness ==
    /\ prompt_pc = "done"
    /\ Param(<<99, 111, 110, 116, 101, 120, 116>>) = StrValue(<<110, 117, 109, 98, 101, 114, 95, 108, 105, 109, 105, 116>>)
    /\ Param(<<109, 105, 110, 95, 107, 101, 121, 119, 111, 114, 100, 115>>) = StrValue(<<123, 103, 111, 97, 108, 125>>)
    /\ Param(<<109, 97, 120, 95, 107, 101, 121, 119, 111, 114, 100, 115>>) = StrValue(<<123, 103, 111, 97, 108, 125>>)
    /\ Contains(prompt_text, <<76, 105, 109, 105, 116, 32, 116, 104, 101, 32, 110, 117, 109, 98, 101, 114, 32, 111, 102, 32, 107, 101, 121, 119, 111, 114, 100, 115, 32, 116, 111, 32, 98, 101, 116, 119, 101, 101, 110, 32, 101, 120, 97, 99, 116, 32, 107, 101, 121, 119, 111, 114, 100, 32, 109, 97, 116, 99, 104, 105, 110, 103, 32, 97, 110, 100, 32, 101, 120, 97, 99, 116, 32, 107, 101, 121, 119, 111, 114, 100, 32, 109, 97, 116, 99, 104, 105, 110, 103, 46>>)

\* the placeholder keys of the template that have no value and no "none" entry
MissingKeys ==
    { key \in _extract_placeholders(Template) :
        /\ Param(key) \in {Absent, NoneValue}
        /\ ~HasKey(lookup_dict(key), <<110, 111, 110, 101>>) }

\* the placeholder keys of the template whose list holds an item that is
\* neither in the table of the key nor in the parameters
BadListKeys ==
    { key \in _extract_placeholders(Template) \cap ListKeys :
        resolve_items(key, Params[key].items, Params).error # NoError }

\* the keys of a table, in the order of the table
CandidateKeys(key) == [n \in 1..Len(lookup_dict(key)) |-> lookup_dict(key)[n].key]

\* C15: a call whose template has a placeholder key with no value and no
\* "none" entry, and no list with an unresolvable item, ends with the
\* missing-parameter ValueError that names such a key and lists the keys of
\* the table of that key.
C15_MissingParameter ==
    ( /\ PromptEnded
      /\ HasKey(TASK, prompt_name)
      /\ MissingKeys # {}
      /\ BadListKeys = {} )
    => /\ prompt_pc = "error"
       /\ prompt_raised.type = "ValueError"
       /\ prompt_raised.kind = "MissingParameter"
       /\ prompt_raised.key \in MissingKeys
       /\ prompt_raised.names = CandidateKeys(prompt_raised.key)

\* the first item of the list passed for a key that is neither in the table
\* of the key nor in the parameters
FirstBadItem(key) ==
    LET items == Params[key].items
        bad(n) == ~HasKey(lookup_dict(key), items[n]) /\ items[n] \notin DOMAIN Params
    IN  items[CHOOSE n \in 1..Len(items) : bad(n) /\ \A m \in 1..(n - 1) : ~bad(m)]

\* the placeholder keys of the template that cannot be given a value
FailingKeys ==
    { key \in _extract_placeholders(Template) : _resolve_value(key, Params).error # NoError }

\* C16: a call whose template has a placeholder with a list holding an item
\* that is neither in the table of the key nor in the parameters returns no
\* prompt: it fails, and with the ValueError naming that item and that key
\* when no other placeholder fails; an item that is both in the table and in
\* the parameters stands in the prompt with its text from the table.
C16_ListItems ==
    (PromptEnded /\ HasKey(TASK, prompt_name))
    => /\ \A key \in BadListKeys :
             /\ prompt_pc = "error"
             /\ FailingKeys = {key}
                => prompt_raised = Error("ValueError", "UnresolvableListItem", key,
                                         <<FirstBadItem(key)>>)
       /\ \A key \in (ListKeys \cap _extract_placeholders(Template)) \ BadListKeys :
             \A n \in 1..Len(Params[key].items) :
                LET item == Params[key].items[n]
                IN  (HasKey(lookup_dict(key), item) /\ item \in DOMAIN Params)
                    => /\ ItemTexts(key)[n] = Get(lookup_dict(key), item).text
                       /\ prompt_pc = "done"
                          => /\ Contains(prompt_text, Get(lookup_dict(key), item).text)
                             /\ ~Contains(prompt_text, str(Params[item]))

\* a call with the list ["json", "nope"] ended with the error for "nope"
C16_Witness ==
    /\ prompt_pc = "error"
    /\ Param(<<102, 111, 114, 109, 97, 116>>) = ListValue(<< <<106, 115, 111, 110>>, <<110, 111, 112, 101>> >>)
    /\ prompt_raised = Error("ValueError", "UnresolvableListItem", <<102, 111, 114, 109, 97, 116>>, << <<110, 111, 112, 101>> >>)

\* a call with json in the list and json = "yaml" among the parameters returned
\* a prompt with the text of the table
C16_TableFirst ==
    /\ prompt_pc = "done"
    /\ Param(<<102, 111, 114, 109, 97, 116>>) = ListValue(<< <<106, 115, 111, 110>>, <<109, 97, 114, 107, 100, 111, 119, 110>> >>)
    /\ Param(<<106, 115, 111, 110>>) = StrValue(<<121, 97, 109, 108>>)
    /\ Contains(prompt_text, <<97, 115, 32, 74, 83, 79, 78, 32, 115, 116, 114, 117, 99, 116, 117, 114, 101, 100, 32, 100, 97, 116, 97, 32, 97, 110, 100, 32, 102, 111, 114, 109, 97, 116, 116, 101, 100, 32, 105, 110, 32, 109, 97, 114, 107, 100, 111, 119, 110>>)

-----------------------------------------------------------------------------
(* create_issue: properties *)

FactoryEnded == factory_pc \in {"done", "error"}

\* the variant the dispatch order gives a type: the first predicate that holds
FirstMatch(issuetype) ==
    IF issuetype.subtask THEN "JiraSubtask"
    ELSE IF issuetype.name = "Epic" THEN "JiraEpic"
    ELSE IF issuetype.name \in {"Story", "Innovation"} THEN "JiraStory"
    ELSE IF issuetype.name = "Task" THEN "JiraTask"
    ELSE IF issuetype.name = "Bug" THEN "JiraBug"
    ELSE "JiraBaseIssue"

C17_TaskWithParent ==
    /\ factory_pc = "done"
    /\ created_issue.variant = "JiraTask"
    /\ created_issue.parent_key = Some("P-1")

\* a payload that lacks nothing the factory reads for its type
WellFormed(payload) ==
    /\ payload \in CompletePayloads
    /\ payload.fields.issuetype[1].subtask => payload.fields.parent # Nothing
    /\ payload.fields.fixVersions # Nothing

\* the same issue in the other representation
OtherForm(payload) ==
    [payload EXCEPT !.form = IF @ = "object" THEN "mapping" ELSE "object"]

\* C18: for an issue that lacks nothing, create_issue returns a model for the
\* object form and for the mapping form, and the two models are equal
C18_BothForms ==
    (FactoryEnded /\ WellFormed(raw_issue)) =>
        /\ factory_pc = "done"
        /\ create_issue(OtherForm(raw_issue)).raised = "None"
        /\ create_issue(OtherForm(raw_issue)).value = created_issue

\* the object form of an issue that lacks nothing always gives a model
C18_ObjectForm ==
    (FactoryEnded /\ WellFormed(raw_issue) /\ raw_issue.form = "object") =>
        factory_pc = "done"

\* the mapping form never does: the call ends with AttributeError
C18_MappingForm ==
    (FactoryEnded /\ raw_issue.form = "mapping") =>
        /\ factory_pc = "error"
        /\ factory_raised \in {"AttributeError", "KeyError", "TypeError"}
        /\ WellFormed(raw_issue) => factory_raised = "AttributeError"

\* a payload whose parent and fixVersions, which the dispatch reads, are there
HasDispatchFields(payload) ==
    /\ payload.fields.parent # Nothing
    /\ payload.fields.fixVersions # Nothing

\* the fields the payload lacks or holds "" in
Lacking(payload) ==
    { f \in OptionalFields :
        \/ payload.fields[f] = Nothing
        \/ f \in StringFields /\ payload.fields[f] = Some("") }

\* the defaults of a model for the fields its payload lacks
Defaulted(payload, model) ==
    /\ "description" \in Lacking(payload) => model.description = Some("No description")
    /\ "timespent" \in Lacking(payload) => model.timeSpentSeconds = Some(0)
    /\ "worklog" \in Lacking(payload) => model.worklogs = <<>>
    /\ "attachment" \in Lacking(payload) => model.attachments = <<>>
    /\ "assignee" \in Lacking(payload) => model.assignee = Nothing
    /\ "reporter" \in Lacking(payload) => model.reporter = Nothing

\* C19: create_issue fails only when the key is unresolvable: an Issue object
\* with a key, whichever other field it lacks or holds "" in, gives a model
\* with the defaults "No description", 0, empty lists and no person
C19_OnlyKeyFails ==
    (FactoryEnded /\ raw_issue.form = "object" /\ raw_issue.key # Nothing
       /\ HasDispatchFields(raw_issue)) =>
        /\ factory_pc = "done"
        /\ Defaulted(raw_issue, created_issue)

\* the fields whose absence the factory does degrade to a default
Degrading == { "description", "timespent", "worklog", "attachment", "assignee", "reporter" }

C19_Degrades ==
    (FactoryEnded /\ raw_issue.form = "object" /\ raw_issue.key # Nothing
       /\ HasDispatchFields(raw_issue) /\ Lacking(raw_issue) \subseteq Degrading) =>
        /\ factory_pc = "done"
        /\ Defaulted(raw_issue, created_issue)

\* the fields whose absence makes the call fail
C19_Fails ==
    (FactoryEnded /\ raw_issue.form = "object" /\ ~(Lacking(raw_issue) \subseteq Degrading)) =>
        /\ factory_pc = "error"
        /\ factory_raised \in {"AttributeError", "ValidationError"}

\* C20: every JiraSubtask create_issue returns holds a non-empty parent_key
C20_ParentKey ==
    (factory_pc = "done" /\ created_issue.variant = "JiraSubtask") =>
        /\ created_issue.parent_key # Nothing
        /\ created_issue.parent_key # Some("")

\* a JiraSubtask always holds a parent_key, which is the key of the payload's
\* parent, whatever that string is
C20_ParentKeyCopied ==
    (factory_pc = "done" /\ created_issue.variant = "JiraSubtask") =>
        /\ raw_issue.fields.parent # Nothing
        /\ created_issue.parent_key = Some(raw_issue.fields.parent[1].key)
        /\ created_issue.parent_summary = Some(raw_issue.fields.parent[1].summary)

\* a JiraSubtask came back with the empty string as its parent_key
C20_EmptyParentKey ==
    /\ factory_pc = "done"
    /\ created_issue.variant = "JiraSubtask"
    /\ created_issue.parent_key = Some("")

-----------------------------------------------------------------------------
(* get_connected_issues: the queue and the repository *)

NoDuplicates(seq) == \A a, b \in 1..Len(seq) : a # b => seq[a] # seq[b]

KeyList(objects) == [n \in 1..Len(objects) |-> objects[n].key]

\* the keys one iteration appended to the queue
Enqueued == SubSeq(queue', Len(queue), Len(queue'))

\* C23: every key in the queue is in the seen set, no key is in the queue
\* twice or again after its issue was collected, no issue is collected or
\* returned twice; an iteration enqueues only keys that were not seen, each
\* once, and marks each of them seen in the same step
C23_MarkedAtEnqueue ==
    /\ [](/\ Range(queue) \subseteq seen_issue_keys
          /\ NoDuplicates(queue \o KeyList(connected_issue_objects))
          /\ Range(KeyList(connected_issue_objects)) \subseteq seen_issue_keys
          /\ NoDuplicates(KeyList(result)))
    /\ [][LoopStep =>
            /\ Range(Enqueued) \cap seen_issue_keys = {}
            /\ NoDuplicates(Enqueued)
            /\ seen_issue_keys' = seen_issue_keys \cup Range(Enqueued)]_vars

\* a traversal returned an issue that lists one subtask of the repository twice
C23_Witness ==
    /\ pc = "done"
    /\ \E i \in Range(result) :
          /\ Len(i.subtasks) = 2
          /\ i.subtasks[1] = i.subtasks[2]
          /\ i.subtasks[1] \in KeysOf(_issue_map) \ {i.key}

\* a subtask listed under two issues was returned once
C23_FanIn ==
    /\ pc = "done"
    /\ \E i, j \in Range(result) :
          /\ i.key # j.key
          /\ Range(i.subtasks) \cap Range(j.subtasks) \cap KeysOf(_issue_map) # {}

\* C24: after construction the repository is a fixed snapshot of its batch:
\* no call of get_issue, get_issue_by_key, get_all_issues or
\* get_connected_issues, returning or raising, changes the mapping, and
\* neither does a change of the list get_all_issues returned
C24_FixedSnapshot ==
    /\ [](pc # "new" => _issue_map = BuildMap(batch, <<>>))
    /\ [][pc # "new" => _issue_map' = _issue_map]_vars

\* the list the caller got was shortened and the repository still holds every issue
C24_Witness ==
    /\ pc = "done"
    /\ Len(all_issues.items) < Len(_issue_map)
    /\ Len(result) = Len(_issue_map)
    /\ Len(result) > 1

-----------------------------------------------------------------------------
(* PromptStore: nested placeholders *)

\* the keys whose placeholders only the expansions bring in
NestedKeys == LeadsTo(BasePlaceholders)

\* the nested keys that have no value and no "none" entry
NestedMissingKeys ==
    { key \in NestedKeys :
        /\ Param(key) \in {Absent, NoneValue}
        /\ ~HasKey(lookup_dict(key), <<110, 111, 110, 101>>) }

\* every placeholder of the template resolves, no key leads back to itself,
\* and the only keys that fail are nested keys without a value
OnlyNestedMissing ==
    /\ HasKey(TASK, prompt_name)
    /\ FailingKeys = {}
    /\ \A key \in MetKeys : ~OnCycle(key)
    /\ NestedMissingKeys # {}
    /\ \A key \in NestedKeys \ NestedMissingKeys : _resolve_value(key, Params).error = NoError

\* C26: a call in which only a nested placeholder has no value and no "none"
\* entry ends with the missing-parameter ValueError naming that key, as a
\* call does for a placeholder of the template
C26_NestedMissingParameter ==
    (PromptEnded /\ OnlyNestedMissing)
    => /\ prompt_pc = "error"
       /\ prompt_raised.type = "ValueError"
       /\ prompt_raised.kind = "MissingParameter"
       /\ prompt_raised.key \in NestedMissingKeys

\* what such a call ends with: the KeyError of _resolve_value
C26_KeyErrorLeaves ==
    (PromptEnded /\ OnlyNestedMissing)
    => /\ prompt_pc = "error"
       /\ prompt_raised = Error("KeyError", "NotProvided", prompt_raised.key, <<>>)
       /\ prompt_raised.key \in NestedMissingKeys

\* the text with every placeholder replaced by the value of its key, and the
\* placeholders of the values in turn, `rounds` times at most
RECURSIVE Substituted(_, _)
Substituted(text, rounds) ==
    LET placeholders == _extract_placeholders(text)
    IN  IF placeholders = {} \/ rounds = 0 THEN text
        ELSE Substituted(
                 format(text, [key \in placeholders |-> str(_resolve_value(key, Params).value)]),
                 rounds - 1)

\* the role text of the call's template
Role == Get(ROLE, Get(TASK, prompt_name).role_key).text

\* C27: a returned prompt is the role text, one space, and the template with
\* every placeholder replaced by its value, those that the values bring in
\* included, at any depth; no placeholder and no brace is left in it
C27_FullyResolved ==
    prompt_pc = "done" =>
        /\ prompt_text = Role \o <<32>> \o Substituted(Template, Cardinality(MetKeys))
        /\ _extract_placeholders(prompt_text) = {}
        /\ ~HasBrace(prompt_text)

\* a prompt came back whose context brought in {min_keywords}, whose value
\* brought in {goal}
C27_Witness ==
    /\ prompt_pc = "done"
    /\ Param(<<99, 111, 110, 116, 101, 120, 116>>) = StrValue(<<110, 117, 109, 98, 101, 114, 95, 108, 105, 109, 105, 116>>)
    /\ Param(<<109, 105, 110, 95, 107, 101, 121, 119, 111, 114, 100, 115>>) = StrValue(<<123, 103, 111, 97, 108, 125>>)
    /\ Param(<<109, 97, 120, 95, 107, 101, 121, 119, 111, 114, 100, 115>>) = IntValue(<<53>>)

\* the number of calls of _recursive_format that are running inside the call
\* get_prompt made
RecursionDepth == IF frames = <<>> THEN 0 ELSE Len(frames) - 1

\* C25: get_prompt ends for every call, with a string or with an error, also
\* when values hold placeholders that lead back to each other; the calls of
\* _recursive_format never nest deeper than the number of distinct
\* placeholder keys of the prompt, and each works on a path of distinct keys
C25_Terminates ==
    /\ (prompt_pc = "start") ~> PromptEnded
    /\ [](RecursionDepth <= Cardinality(MetKeys))
    /\ [](\A n \in 1..Len(frames) : Cardinality(frames[n].seen_keys) = n - 1)
    /\ [](prompt_pc = "done" => prompt_raised = NoError /\ frames = <<>>)
    /\ [](prompt_pc = "error" => prompt_raised # NoError /\ prompt_text = <<>>)

\* the step-by-step call ends as get_prompt computed in one step does
C25_SameOutcome ==
    /\ prompt_pc = "done" => get_prompt(prompt_name, prompt_params) = Return_(prompt_text)
    /\ prompt_pc = "error" => prompt_raised \in get_prompt(prompt_name, prompt_params).errors

\* object expands to {recipient} and recipient to {object}: the call ended
\* with the cyclic-reference error in the second nested call
C25_Witness ==
    /\ prompt_pc = "error"
    /\ prompt_raised.kind = "CyclicReference"
    /\ RecursionDepth = 2
    /\ Param(<<111, 98, 106, 101, 99, 116>>) = StrValue(<<123, 114, 101, 99, 105, 112, 105, 101, 110, 116, 125>>)
    /\ Param(<<114, 101, 99, 105, 112, 105, 101, 110, 116>>) = StrValue(<<123, 111, 98, 106, 101, 99, 116, 125>>)

-----------------------------------------------------------------------------
(* fetch_issues: the pages *)

FetchEnded == fetch_pc = "done"

\* the n-th request asks for the page at offset (n - 1) * max_results
ConsecutiveOffsets ==
    \A n \in 1..Len(pages) : pages[n].startAt = (n - 1) * max_results(fetch_module)

\* every page before the last one requested was full
FullBeforeLast ==
    \A n \in 1..Len(pages) :
        (n < Len(pages) \/ ~FetchEnded) => pages[n].size = max_results(fetch_module)

\* C28: fetch_issues ends for every total; it returns the issues of the source,
\* each once and in the source's order; the pages are requested at consecutive
\* offsets, and the loop ends with the first page that is empty or shorter
\* than the page size
C28_FetchesAll ==
    /\ (fetch_pc = "loop") ~> FetchEnded
    /\ [](FetchEnded => fetch_issues_list = source)
    /\ [](fetch_pc # "idle" => ConsecutiveOffsets /\ FullBeforeLast)
    /\ [](FetchEnded => /\ pages # <<>>
                        /\ pages[Len(pages)].size < max_results(fetch_module))

\* a total that is an exact multiple of the page size: two full pages, then an
\* empty one
C28_Witness ==
    /\ FetchEnded
    /\ Len(source) = 2 * max_results(fetch_module)
    /\ Len(pages) = 3
    /\ pages[3].size = 0
    /\ fetch_issues_list = source

\* nothing matches the query: one request, nothing returned
C28_NoIssues ==
    (FetchEnded /\ source = <<>>) => (Len(pages) = 1 /\ fetch_issues_list = <<>>)

-----------------------------------------------------------------------------
(* JiraIngestor: order, subtasks and quoting *)

IngestEnded == ingest_pc \in {"done", "error"}

\* the issues of a call of ingest_bulk in the order of its three loops
Worklist(args) == args.epics \o second_loop(args) \o args.subtasks

\* the keys of the issues the turns so far were for
TurnKeys == [n \in 1..Len(calls) |-> calls[n].key]

\* the turns so far took the issues in the order epics, stories, tasks, bugs,
\* subtasks, one turn for each
C21_InOrder ==
    ingest_pc \in {"bulk", "done", "error"} =>
        /\ Len(calls) <= Len(Worklist(ingest_args))
        /\ \A n \in 1..Len(calls) : calls[n].key = Worklist(ingest_args)[n].key[1]

\* a failure with an exception the except clauses name is logged, and the
\* loop goes on
C21_NamedFailuresPass ==
    \A n \in 1..Len(calls) :
        calls[n].raised \in { "KeyError", "ValueError" } \cup DatabaseErrors
            => (ingest_pc # "error" \/ n < Len(calls))

\* C21: ingest_bulk takes the epics, then the stories, tasks and bugs, then
\* the subtasks, and a failure to ingest one issue does not keep it from
\* the issues after it: when ingest_bulk has ended, each issue had its turn
C21_DependencyOrder ==
    /\ C21_InOrder
    /\ (ingest_pc \in {"done", "error"} /\ ingest_args \in BulkCalls)
           => Len(calls) = Len(Worklist(ingest_args))

\* the rows of the subtask table with a key
SubtaskRows(key) ==
    { n \in 1..Len(store.jira_subtask) : store.jira_subtask[n][1] = key }

\* the turns of the third loop
SubtaskTurns ==
    { n \in 1..Len(calls) : calls[n].method \in {"ingest_subtask", "warning"} }

\* C22: with a working store and embedding service, when ingest_bulk has
\* returned a subtask has a row in the store if and only if issue_exists
\* answered true for its parent_key
C22_StoredIffParentExists ==
    (ingest_pc = "done" /\ ~faulted /\ ingest_args \in BulkCalls) =>
        \A n \in SubtaskTurns :
            (SubtaskRows(calls[n].key) # {}) <=> (calls[n].exists = Some(TRUE))

\* a subtask whose parent is missing causes no insert
C22_NoInsertWithoutParent ==
    \A n \in SubtaskTurns :
        calls[n].exists = Some(FALSE) => (~calls[n].inserted /\ calls[n].statement = <<>>)

\* no call of the ingestor composes the subtask statement: get_sql raises
\* KeyError for {description}, and the subtask table stays empty
C22_SubtaskNeverStored ==
    /\ store.jira_subtask = <<>>
    /\ \A n \in 1..Len(calls) :
           calls[n].method = "ingest_subtask" /\ calls[n].raised = "None"
               => calls[n].logged = "KeyError"

\* the fields of an issue that are put between quotes
QuotedFields ==
    { "key", "summary", "description", "status", "project", "assignee",
      "reporter", "url" }

\* the value of such a field
FieldOf(issue, name) ==
    IF name = "assignee" THEN displayName(issue.assignee)
    ELSE IF name = "reporter" THEN displayName(issue.reporter)
    ELSE issue[name][1]

\* C30: in every insert statement ingest_issue or ingest_subtask composes,
\* each value of key, summary, description, status, project, assignee,
\* reporter and url is put in with its single quotes doubled
C30_QuotesDoubled ==
    (ingest_pc \in {"done", "error"} /\ ingest_args \in { [issue |-> i] : i \in SingleIssues })
        => \A n \in 1..Len(calls) :
               calls[n].statement # <<>> =>
                   \A name \in QuotedFields \cap DOMAIN calls[n].params :
                       calls[n].params[name]
                           = replace_quotes(FieldOf(ingest_args.issue, name))

\* summary and description are put in with their quotes doubled
C30_SummaryAndDescription ==
    ingest_args \in { [issue |-> i] : i \in SingleIssues } =>
        \A n \in 1..Len(calls) :
            calls[n].statement # <<>> =>
                \A name \in {"summary", "description"} \cap DOMAIN calls[n].params :
                    calls[n].params[name]
                        = replace_quotes(FieldOf(ingest_args.issue, name))

\* a quote in another field ends the literal: the store cannot read the
\* statement, and a row it does read holds the values of the issue
C30_RowsAsGiven ==
    ingest_args \in { [issue |-> i] : i \in SingleIssues } =>
        \A n \in 1..Len(calls) :
            /\ calls[n].inserted =>
                 \A name \in QuotedFields \ {"summary", "description"} :
                     Quote \notin Range(FieldOf(ingest_args.issue, name))
            /\ (calls[n].statement # <<>> /\ ~calls[n].inserted)
                   => calls[n].logged = "ProgrammingError"

-----------------------------------------------------------------------------
(* connected_issues_for_key: the subtask links *)

\* the places of a parent and of one of its subtasks in the fetched payloads
SubtaskPairs ==
    { pair \in (1..Len(source)) \X (1..Len(source)) :
        /\ source[pair[2]].fields.issuetype[1].subtask
        /\ source[pair[2]].fields.parent # Nothing
        /\ source[pair[2]].fields.parent[1].key = source[pair[1]].key[1] }

\* C29: for fetched payloads in which S is a subtask of P, the resolved P
\* lists S in its subtasks, the connected issues of P include S, and the
\* connected issues of S include P
C29_SubtaskLinksCarried ==
    (pc = "done" /\ source \in FetchedBatches) =>
        \A pair \in SubtaskPairs :
            LET P == source[pair[1]].key[1]
                S == source[pair[2]].key[1]
            IN  /\ \A n \in 1..Len(batch) :
                       batch[n].key = P => S \in Range(batch[n].subtasks)
                /\ issue_key = P => S \in Range(KeyList(result))
                /\ issue_key = S => P \in Range(KeyList(result))

\* from the subtask the parent is reached over parent_key
C29_ParentReached ==
    (pc = "done" /\ source \in FetchedBatches) =>
        \A pair \in SubtaskPairs :
            issue_key = source[pair[2]].key[1]
                => source[pair[1]].key[1] \in Range(KeyList(result))

\* no resolved issue lists a subtask: from the parent nothing else is reached
C29_SubtasksEmpty ==
    (pc = "done" /\ source \in FetchedBatches) =>
        /\ \A n \in 1..Len(batch) : batch[n].subtasks = <<>>
        /\ \A pair \in SubtaskPairs :
               issue_key = source[pair[1]].key[1] => KeyList(result) = <<issue_key>>

====
